---- MODULE Spec2Model ----
(***************************************************************************)
(* Model of the AI chat add-on for Anki (ai_chat_collection.py, the        *)
(* streaming variant, and ai_chat_simple.py, the blocking variant).        *)
(*                                                                         *)
(* Text is a sequence of tokens (characters or words).  workers maps each   *)
(* attribute that holds a worker thread (self.worker, self.summary_worker, *)
(* self.flashcard_worker) to the thread object it refers to; the signals a *)
(* thread emits are queued to the UI thread (Qt queued connection) and     *)
(* delivered in emission order.                                            *)
(***************************************************************************)
EXTENDS Integers, Sequences, FiniteSets, TLC

\* ------------------------------------------------------------------ bounds
MaxLines == 2
MaxHistory == 2
MaxClicks == 4

\* ------------------------------------------------------------ input alphabets
Cards == {"c1", "c2"}
\* what the user may have typed in the input line when send is triggered
UserInputs == { <<" ">>, <<"q">>, <<" ", "r">> }
\* text fragments a server event may carry in choices[0].delta.content
Fragments == { <<>>, <<"a">>, <<"b">> }
\* one decoded and stripped line of the event stream
Events ==
    [t : {"content"}, c : Fragments]
      \cup { [t |-> "nocontent"], [t |-> "malformed"], [t |-> "nondata"],
             [t |-> "badshape"], [t |-> "done"] }

\* fragments of generated flashcard text
FlashFragments ==
    { <<"Front:", "x", "\n", "Back:", "y", "\n", "\n">>,
      <<"Front:", "x", "\n">>, <<"Back:", "y", "\n">>, <<"{{c", "z", "\n">> }
FlashEvents ==
    [t : {"content"}, c : FlashFragments]
      \cup { [t |-> "nocontent"], [t |-> "malformed"], [t |-> "nondata"],
             [t |-> "badshape"], [t |-> "done"] }
\* the lines the server may send to a worker of the given kind
EventsOf(kind) == IF kind = "flashcards" THEN FlashEvents ELSE Events

\* the completion text a non-streaming response may carry
Replies == { <<"a">>, <<" ">>, <<"b", " ">> }

\* addon: which of the two add-on files is installed ("collection" is
\*   ai_chat_collection.py, "simple" is ai_chat_simple.py)
\* chat_history: the rows of table chat_history, in rowid order
\* clock: the wall clock
\* win: the open chat window of ai_chat_collection.py
\* workers: the worker threads of ai_chat_collection.py
\* simple: the chat window of ai_chat_simple.py
\* dialog: the modal dialog opened from the chat window, if any
\* store: the host application's collection, as far as the add-on writes it
\* lines_read: the number of stream lines the workers have read so far
\* clicks: the number of times the user has acted on a dialog so far
\* chat_manager: the ChatManager's current_card ("none" for None) and whether
\*   its current_window refers to a window
\* old_win: the chat window created before win, which stays alive as a child
\*   of the main window after it was closed
VARIABLES addon, chat_history, clock, win, workers, simple, dialog, store, lines_read,
          clicks, chat_manager, old_win

vars == <<addon, chat_history, clock, win, workers, simple, dialog, store, lines_read,
          clicks, chat_manager, old_win>>

\* ------------------------------------------------------------ text helpers
\* str.strip() removes blanks and line breaks alike
IsSpace(ch) == ch \in {" ", "\n"}

RECURSIVE lstrip(_)
lstrip(s) == IF s # <<>> /\ IsSpace(Head(s)) THEN lstrip(Tail(s)) ELSE s

RECURSIVE rstrip(_)
rstrip(s) ==
    IF s # <<>> /\ IsSpace(s[Len(s)]) THEN rstrip(SubSeq(s, 1, Len(s) - 1)) ELSE s

strip(s) == rstrip(lstrip(s))

RECURSIVE concat(_)
concat(ss) == IF ss = <<>> THEN <<>> ELSE Head(ss) \o concat(Tail(ss))

\* WHERE card_id = ? (keep = TRUE) and its complement (keep = FALSE)
RECURSIVE where_card(_, _, _)
where_card(table, card_id, keep) ==
    IF table = <<>> THEN <<>>
    ELSE IF (Head(table).card_id = card_id) = keep
         THEN <<Head(table)>> \o where_card(Tail(table), card_id, keep)
         ELSE where_card(Tail(table), card_id, keep)

\* ------------------------------------------------------------ ChatDatabase
\* datetime.now(): the wall clock read by save_message
now == clock

\* the clock starts at 1 and advances with every save; MaxHistory bounds the
\* number of messages sent
SavedSoFar == clock - 1

save_message(table, card_id, role, content) ==
    Append(table, [card_id |-> card_id, timestamp |-> now,
                   role |-> role, content |-> content])

\* ORDER BY timestamp ASC: insert row r into the ordered rows
RECURSIVE order_insert(_, _)
order_insert(rows, r) ==
    IF rows = <<>> THEN <<r>>
    ELSE IF r.timestamp < Head(rows).timestamp THEN <<r>> \o rows
    ELSE <<Head(rows)>> \o order_insert(Tail(rows), r)

RECURSIVE order_by_timestamp(_)
order_by_timestamp(rows) ==
    IF rows = <<>> THEN <<>>
    ELSE order_insert(order_by_timestamp(SubSeq(rows, 1, Len(rows) - 1)),
                      rows[Len(rows)])

get_chat_history(table, card_id) ==
    LET rows == order_by_timestamp(where_card(table, card_id, TRUE))
    IN  [i \in 1..Len(rows) |->
            [timestamp |-> rows[i].timestamp, role |-> rows[i].role,
             content |-> rows[i].content]]

\* DELETE FROM chat_history WHERE card_id = ?
clear_chat_history(table, card_id) == where_card(table, card_id, FALSE)

\* ------------------------------------------------------------ workers
\* Signals are records; the three worker classes name their completion signal
\* response_finished / summary_generated / flashcards_generated: "done" here.
chunk_received(text) == [sig |-> "chunk", text |-> text]
finished_signal(text) == [sig |-> "done", text |-> text]
error_occurred(msg) == [sig |-> "error", text |-> msg]

NoResponse == <<"No response received">>
\* str(e) of the exception that ended run()
ExceptionText == <<"exception">>

emit(w, signal) == [w EXCEPT !.emitted = Append(@, signal)]

\* card content as extracted by ChatManager.get_card_content: one opaque token
get_card_content(card) == <<card>>

\* the messages list StreamingWorker.run builds from its constructor arguments
StreamingWorker_messages(user_message, card_content) ==
    << [role |-> "system", content |-> <<"ai_instructions">> \o card_content],
       [role |-> "user", content |-> user_message] >>

\* the attribute is not set, or refers to no thread
NoWorker ==
    [kind |-> "none", owner |-> "none", phase |-> "none", messages |-> <<>>,
     accumulated_text |-> <<>>, frags |-> <<>>, skipped |-> 0, outcome |-> "open",
     emitted |-> <<>>, delivered |-> 0, card_index |-> 0]

\* a worker object right after construction and start().
\* frags, skipped, outcome, emitted and delivered record the run: the content
\* fragments received, the number of malformed lines passed over, how the
\* stream ended ("done", "eof" or "exception"), every signal emitted, and how
\* many of them the UI thread has handled.
NewWorker(kind, owner, messages) ==
    [kind |-> kind, owner |-> owner, phase |-> "connecting", messages |-> messages,
     accumulated_text |-> <<>>, frags |-> <<>>, skipped |-> 0, outcome |-> "open",
     emitted |-> <<>>, delivered |-> 0, card_index |-> 0]

\* mutant: the final response is emitted whether or not text was accumulated
emit_final_always_done(w) == emit(w, finished_signal(w.accumulated_text))

\* "Emit final response": the code after the with block
emit_final(w) ==
    IF w.accumulated_text # <<>>
    THEN emit(w, finished_signal(w.accumulated_text))
    ELSE emit(w, error_occurred(NoResponse))

\* mutant: an exception ends run() without a signal
run_except_silent(w) == [w EXCEPT !.phase = "finished", !.outcome = "exception"]

\* except Exception as e: self.error_occurred.emit(str(e))
run_except(w) ==
    [emit(w, error_occurred(ExceptionText)) EXCEPT !.phase = "finished",
                                                   !.outcome = "exception"]

\* ------------------------------------------------------------ worker run
\* mutant: [DONE] emits the final response without leaving the loop
run_line_no_break(w, ev) ==
    LET read == w IN
    CASE ev.t \in {"nondata", "malformed", "nocontent"} -> read
      [] ev.t = "done"      -> emit_final(w)
      [] ev.t = "content"   ->
            LET acc == [read EXCEPT !.accumulated_text = @ \o ev.c,
                                    !.frags = Append(@, ev.c)]
            IN  emit(acc, chunk_received(acc.accumulated_text))
      [] ev.t = "badshape"  -> run_except(read)

\* mutant: the chunk signal carries the new fragment instead of the text so far
run_line_delta(w, ev) ==
    LET read == w IN
    CASE ev.t \in {"nondata", "malformed", "nocontent"} -> read
      [] ev.t = "done"      ->
            [emit_final(w) EXCEPT !.phase = "finished", !.outcome = "done"]
      [] ev.t = "content"   ->
            LET acc == [read EXCEPT !.accumulated_text = @ \o ev.c,
                                    !.frags = Append(@, ev.c)]
            IN  emit(acc, chunk_received(ev.c))
      [] ev.t = "badshape"  -> run_except(read)

\* mutant: a payload that is not JSON raises out of the loop
run_line_malformed_fatal(w, ev) ==
    LET read == w IN
    CASE ev.t \in {"nondata", "nocontent"} -> read
      [] ev.t = "malformed" -> run_except([read EXCEPT !.skipped = @ + 1])
      [] ev.t = "done"      ->
            [emit_final(w) EXCEPT !.phase = "finished", !.outcome = "done"]
      [] ev.t = "content"   ->
            LET acc == [read EXCEPT !.accumulated_text = @ \o ev.c,
                                    !.frags = Append(@, ev.c)]
            IN  emit(acc, chunk_received(acc.accumulated_text))
      [] ev.t = "badshape"  -> run_except(read)

\* one iteration of "for line in response" on the decoded, stripped line ev
run_line(w, ev) ==
    LET read == w IN
    CASE ev.t = "nondata"   -> read
      [] ev.t = "done"      ->
            [emit_final(w) EXCEPT !.phase = "finished", !.outcome = "done"]
      [] ev.t = "malformed" -> [read EXCEPT !.skipped = @ + 1]
      [] ev.t = "nocontent" -> read
      [] ev.t = "content"   ->
            LET acc == [read EXCEPT !.accumulated_text = @ \o ev.c,
                                    !.frags = Append(@, ev.c)]
            IN  emit(acc, chunk_received(acc.accumulated_text))
      [] ev.t = "badshape"  -> run_except(read)

\* the response iterator is exhausted without [DONE]
run_eof(w) == [emit_final(w) EXCEPT !.phase = "finished", !.outcome = "eof"]

\* self.worker, the dialogs' summary_worker, flashcard_worker and
\* refinement_worker, and a thread no attribute refers to any more
WorkerSlots == {"chat", "summary", "flashcards", "refinement", "detached"}

\* ------------------------------------------------------------ display
\* On the characters that occur here (no #, *, ` or list markers) the only
\* rewriting rule that applies is the newline rule.
RECURSIVE convert_markdown_to_html(_)
convert_markdown_to_html(text) ==
    IF text = <<>> THEN <<>>
    ELSE (IF Head(text) = "\n" THEN <<"<br>">> ELSE <<Head(text)>>)
            \o convert_markdown_to_html(Tail(text))

\* ------------------------------------------------------------ AIFloatingChatWindow
\* bubbles: the widgets of chat_layout; current_ai_bubble: index of the
\* streaming label in bubbles, 0 for None
NewWindow(card) ==
    [card |-> card, card_content |-> get_card_content(card),
     send_button |-> TRUE, message_input |-> TRUE,
     bubbles |-> [i \in 1..Len(get_chat_history(chat_history, card)) |->
                    [is_user |-> get_chat_history(chat_history, card)[i].role = "user",
                     text |-> get_chat_history(chat_history, card)[i].content]],
     current_ai_bubble |-> 0, visible |-> TRUE]

\* no window has been created yet
NoWindow ==
    [card |-> "none", card_content |-> <<>>, send_button |-> FALSE,
     message_input |-> FALSE, bubbles |-> <<>>, current_ai_bubble |-> 0,
     visible |-> FALSE]

add_message_bubble(w, text, is_user) ==
    [w EXCEPT !.bubbles = Append(@, [is_user |-> is_user, text |-> text])]

create_streaming_ai_bubble(w) ==
    [w EXCEPT !.bubbles = Append(@, [is_user |-> FALSE, text |-> <<"...">>]),
              !.current_ai_bubble = Len(w.bubbles) + 1]

\* mutant: the input widgets are never disabled
set_input_enabled_always(w, on) == [w EXCEPT !.send_button = TRUE, !.message_input = TRUE]

set_input_enabled(w, on) == [w EXCEPT !.send_button = on, !.message_input = on]

\* the send button or Return in the input line triggers send_message only
\* while the widget that emits the signal is enabled and its window is shown
can_send == win.visible /\ (win.send_button \/ win.message_input)

get_ai_response_streaming(user_message) ==
    workers' = [workers EXCEPT !["chat"] =
                 NewWorker("chat", "window",
                           StreamingWorker_messages(user_message, win.card_content))]

\* mutant: the user message is shown and sent but not saved
send_message_unsaved(input) ==
    LET user_message == strip(input) IN
    /\ addon = "collection"
    /\ dialog.kind = "none"
    /\ can_send
    /\ SavedSoFar < MaxHistory
    /\ IF user_message = <<>>
       THEN UNCHANGED vars
       ELSE /\ chat_history' = chat_history
            /\ clock' = clock + 1
            /\ win' = create_streaming_ai_bubble(
                         set_input_enabled(
                           add_message_bubble(win, user_message, TRUE), FALSE))
            /\ get_ai_response_streaming(user_message)
            /\ UNCHANGED <<addon, chat_manager, old_win, simple, dialog, store, lines_read, clicks>>

send_message(input) ==
    LET user_message == strip(input) IN
    /\ addon = "collection"
    /\ dialog.kind = "none"
    /\ can_send
    /\ SavedSoFar < MaxHistory
    /\ IF user_message = <<>>
       THEN UNCHANGED vars
       ELSE /\ chat_history' = save_message(chat_history, win.card, "user", user_message)
            /\ clock' = clock + 1
            /\ win' = create_streaming_ai_bubble(
                         set_input_enabled(
                           add_message_bubble(win, user_message, TRUE), FALSE))
            /\ get_ai_response_streaming(user_message)
            /\ UNCHANGED <<addon, chat_manager, old_win, simple, dialog, store, lines_read, clicks>>

update_streaming_bubble(text) ==
    /\ win' = IF win.current_ai_bubble # 0
              THEN [win EXCEPT !.bubbles[win.current_ai_bubble].text =
                                   convert_markdown_to_html(text)]
              ELSE win
    /\ UNCHANGED <<chat_history, clock>>

\* mutant: the final text is shown but not saved
finish_streaming_response_unsaved(final_text) ==
    /\ win' = set_input_enabled(
                IF win.current_ai_bubble # 0
                THEN [win EXCEPT !.bubbles[win.current_ai_bubble].text =
                                     convert_markdown_to_html(final_text),
                                 !.current_ai_bubble = 0]
                ELSE win, TRUE)
    /\ UNCHANGED <<chat_history, clock>>

finish_streaming_response(final_text) ==
    /\ win' = set_input_enabled(
                IF win.current_ai_bubble # 0
                THEN [win EXCEPT !.bubbles[win.current_ai_bubble].text =
                                     convert_markdown_to_html(final_text),
                                 !.current_ai_bubble = 0]
                ELSE win, TRUE)
    /\ chat_history' = save_message(chat_history, win.card, "assistant", final_text)
    /\ clock' = clock + 1

\* mutant: the error text is saved as the assistant's message
handle_streaming_error_saved(error_message) ==
    /\ win' = set_input_enabled(
                IF win.current_ai_bubble # 0
                THEN [win EXCEPT !.bubbles[win.current_ai_bubble].text =
                                     <<"Error: ">> \o error_message,
                                 !.current_ai_bubble = 0]
                ELSE win, TRUE)
    /\ chat_history' = save_message(chat_history, win.card, "assistant", error_message)
    /\ clock' = clock + 1

\* mutant: the error is shown and the input stays disabled
handle_streaming_error_stuck(error_message) ==
    /\ win' = IF win.current_ai_bubble # 0
              THEN [win EXCEPT !.bubbles[win.current_ai_bubble].text =
                                   <<"Error: ">> \o error_message,
                               !.current_ai_bubble = 0]
              ELSE win
    /\ UNCHANGED <<chat_history, clock>>

handle_streaming_error(error_message) ==
    /\ win' = set_input_enabled(
                IF win.current_ai_bubble # 0
                THEN [win EXCEPT !.bubbles[win.current_ai_bubble].text =
                                     <<"Error: ">> \o error_message,
                                 !.current_ai_bubble = 0]
                ELSE win, TRUE)
    /\ UNCHANGED <<chat_history, clock>>

\* ------------------------------------------------------------ signal delivery
\* The UI thread's event loop runs the slot connected to the oldest
\* undelivered signal of worker i.
pending(i) == workers[i].delivered < Len(workers[i].emitted)
next_signal(i) == workers[i].emitted[workers[i].delivered + 1]

deliver_chat(i) ==
    /\ workers[i].kind = "chat"
    /\ workers[i].owner = "window"
    /\ pending(i)
    /\ workers' = [workers EXCEPT ![i].delivered = @ + 1]
    /\ UNCHANGED <<addon, chat_manager, old_win, simple, dialog, store, lines_read, clicks>>
    /\ CASE next_signal(i).sig = "chunk" -> update_streaming_bubble(next_signal(i).text)
         [] next_signal(i).sig = "done"  -> finish_streaming_response(next_signal(i).text)
         [] next_signal(i).sig = "error" -> handle_streaming_error(next_signal(i).text)

\* ------------------------------------------------------------ SummaryDialog
\* A dialog run with exec() is modal: while it is open the chat window takes
\* no input.  A dialog that was closed stays alive as a hidden child of the
\* chat window and its worker keeps running; nothing the hidden dialog then
\* does can be observed, so the worker's owner becomes "closed".
NoDialog == [kind |-> "none"]

\* the text generate_conversation_summary and generate_flashcards build
RECURSIVE conversation_lines(_)
conversation_lines(history) ==
    IF history = <<>> THEN <<>>
    ELSE (IF Head(history).role = "user" THEN <<"You: ">> ELSE <<"AI: ">>)
           \o Head(history).content \o <<"\n", "\n">>
           \o conversation_lines(Tail(history))

conversation_text_of(card_content, history) ==
    <<"Flashcard: ">> \o card_content \o <<"\n", "\n", "Conversation:", "\n">>
      \o conversation_lines(history)

SummaryWorker_messages(conversation_text) ==
    << [role |-> "system", content |-> <<"study notes">>],
       [role |-> "user",
        content |-> <<"summary_prompt">> \o conversation_text
                      \o <<"Conversation Summary:">>] >>

\* QTextEdit.toPlainText() of a document set with setHtml
RECURSIVE toPlainText(_)
toPlainText(html) ==
    IF html = <<>> THEN <<>>
    ELSE (IF Head(html) = "<br>" THEN <<"\n">> ELSE <<Head(html)>>)
            \o toPlainText(Tail(html))

generate_conversation_summary ==
    LET history == get_chat_history(chat_history, win.card) IN
    /\ addon = "collection"
    /\ dialog.kind = "none"
    /\ clicks < MaxClicks
    /\ IF Len(history) < 2
       THEN UNCHANGED vars
       ELSE /\ dialog' = [kind |-> "summary", summary_text |-> <<>>,
                          summary_display |-> <<>>]
            /\ workers' = [workers EXCEPT !["summary"] =
                  NewWorker("summary", "dialog",
                    SummaryWorker_messages(
                      conversation_text_of(win.card_content, history)))]
            /\ UNCHANGED <<addon, chat_manager, old_win, chat_history, clock, win, simple, store, lines_read>>
            /\ clicks' = clicks + 1

update_streaming_summary(text) ==
    /\ dialog' = [dialog EXCEPT !.summary_display = convert_markdown_to_html(text)]
    /\ UNCHANGED <<chat_history, clock, win, store, lines_read, clicks>>

\* mutant: the summary is also saved as a message of the conversation
finish_streaming_summary_saved(final_text) ==
    /\ dialog' = [dialog EXCEPT !.summary_text = final_text,
                                !.summary_display = convert_markdown_to_html(final_text)]
    /\ chat_history' = save_message(chat_history, win.card, "assistant", final_text)
    /\ UNCHANGED <<clock, win, store, lines_read, clicks>>

finish_streaming_summary(final_text) ==
    /\ dialog' = [dialog EXCEPT !.summary_text = final_text,
                                !.summary_display = convert_markdown_to_html(final_text)]
    /\ UNCHANGED <<chat_history, clock, win, store, lines_read, clicks>>

handle_summary_error(error_message) ==
    /\ dialog' = [dialog EXCEPT !.summary_display =
                     <<"Error generating summary: ">> \o error_message]
    /\ UNCHANGED <<chat_history, clock, win, store, lines_read, clicks>>

deliver_summary(i) ==
    /\ workers[i].kind = "summary"
    /\ pending(i)
    /\ workers' = [workers EXCEPT ![i].delivered = @ + 1]
    /\ UNCHANGED <<addon, chat_manager, old_win, simple>>
    /\ IF workers[i].owner = "closed"
       THEN UNCHANGED <<chat_history, clock, win, dialog, store, lines_read, clicks>>
       ELSE CASE next_signal(i).sig = "chunk" -> update_streaming_summary(next_signal(i).text)
              [] next_signal(i).sig = "done"  -> finish_streaming_summary(next_signal(i).text)
              [] next_signal(i).sig = "error" -> handle_summary_error(next_signal(i).text)

\* the dialog's worker loses its visible owner
orphan(i) == IF workers[i].owner = "dialog" THEN [workers[i] EXCEPT !.owner = "closed"]
             ELSE workers[i]

\* Cancel, or the window's close button
summary_reject ==
    /\ dialog.kind = "summary"
    /\ dialog' = NoDialog
    /\ workers' = [workers EXCEPT !["summary"] = orphan("summary")]
    /\ UNCHANGED <<addon, chat_manager, old_win, chat_history, clock, win, simple, store, lines_read>>
    /\ clicks < MaxClicks /\ clicks' = clicks + 1

\* Save: the displayed text goes to the chosen field of the card's note
save_to_card(append_checked) ==
    LET summary_text == toPlainText(dialog.summary_display)
        existing_content == store.note_field
        new_content ==
            IF append_checked /\ strip(existing_content) # <<>>
            THEN existing_content \o <<"\n", "\n", "=== AI Chat Summary ===", "\n">>
                   \o summary_text
            ELSE summary_text IN
    /\ dialog.kind = "summary"
    /\ store' = [store EXCEPT !.note_field = new_content]
    /\ dialog' = NoDialog
    /\ workers' = [workers EXCEPT !["summary"] = orphan("summary")]
    /\ UNCHANGED <<addon, chat_manager, old_win, chat_history, clock, win, simple, lines_read>>
    /\ clicks < MaxClicks /\ clicks' = clicks + 1

\* ------------------------------------------------------------ flashcard text
Range(s) == {s[k] : k \in DOMAIN s}

\* str.split("\n")
RECURSIVE split_lines(_)
split_lines(text) ==
    IF "\n" \notin Range(text) THEN <<text>>
    ELSE LET k == CHOOSE k \in 1..Len(text) :
                      text[k] = "\n" /\ \A j \in 1..(k - 1) : text[j] # "\n"
         IN  <<SubSeq(text, 1, k - 1)>> \o split_lines(SubSeq(text, k + 1, Len(text)))

\* line.lower().startswith('front:') and line.lower().startswith('back:');
\* a label is one token
starts_front(line) == line # <<>> /\ Head(line) \in {"Front:", "front:"}
starts_back(line) == line # <<>> /\ Head(line) \in {"Back:", "back:"}
\* mutant: only a line that begins with the cloze mark counts
has_cloze_at_start(line) == line # <<>> /\ Head(line) = "{{c"

\* '{{c' in line
has_cloze(line) == "{{c" \in Range(line)

RECURSIVE parse_cloze(_, _, _)
parse_cloze(lines, current_card, flashcards) ==
    IF lines = <<>>
    THEN IF current_card # <<>>
         THEN Append(flashcards, [content |-> strip(current_card)])
         ELSE flashcards
    ELSE LET line == strip(Head(lines)) IN
         IF line # <<>> /\ has_cloze(line)
         THEN parse_cloze(Tail(lines), line,
                 IF current_card # <<>>
                 THEN Append(flashcards, [content |-> strip(current_card)])
                 ELSE flashcards)
         ELSE IF line # <<>> /\ current_card # <<>>
         THEN parse_cloze(Tail(lines), current_card \o <<"\n">> \o line, flashcards)
         ELSE IF line = <<>> /\ current_card # <<>>
         THEN parse_cloze(Tail(lines), <<>>,
                 Append(flashcards, [content |-> strip(current_card)]))
         ELSE parse_cloze(Tail(lines), current_card, flashcards)

\* st: current_front, current_back, in_front, in_back
RECURSIVE parse_basic(_, _, _)
parse_basic(lines, st, flashcards) ==
    LET complete == st.current_front # <<>> /\ st.current_back # <<>>
        card == [front |-> strip(st.current_front), back |-> strip(st.current_back)]
    IN
    IF lines = <<>>
    THEN IF complete THEN Append(flashcards, card) ELSE flashcards
    ELSE LET line == strip(Head(lines)) IN
         IF starts_front(line)
         THEN parse_basic(Tail(lines),
                 [current_front |-> strip(Tail(line)), current_back |-> <<>>,
                  in_front |-> TRUE, in_back |-> FALSE],
                 IF complete THEN Append(flashcards, card) ELSE flashcards)
         ELSE IF starts_back(line)
         THEN parse_basic(Tail(lines),
                 [st EXCEPT !.current_back = strip(Tail(line)),
                            !.in_front = FALSE, !.in_back = TRUE],
                 flashcards)
         ELSE IF line # <<>> /\ st.in_front
         THEN parse_basic(Tail(lines),
                 [st EXCEPT !.current_front = @ \o <<"\n">> \o line], flashcards)
         ELSE IF line # <<>> /\ st.in_back
         THEN parse_basic(Tail(lines),
                 [st EXCEPT !.current_back = @ \o <<"\n">> \o line], flashcards)
         ELSE IF line = <<>> /\ complete
         THEN parse_basic(Tail(lines),
                 [current_front |-> <<>>, current_back |-> <<>>,
                  in_front |-> FALSE, in_back |-> FALSE],
                 Append(flashcards, card))
         ELSE parse_basic(Tail(lines), st, flashcards)

\* mutant: the basic parser stops after its first flashcard
parse_flashcards_first_only(text, card_format) ==
    LET flashcards ==
            IF card_format = "cloze"
            THEN parse_cloze(split_lines(text), <<>>, <<>>)
            ELSE parse_basic(split_lines(text),
                             [current_front |-> <<>>, current_back |-> <<>>,
                              in_front |-> FALSE, in_back |-> FALSE], <<>>)
    IN  IF card_format = "cloze" THEN flashcards
        ELSE SubSeq(flashcards, 1, IF Len(flashcards) > 1 THEN 1 ELSE Len(flashcards))

\* mutant: a basic text that yields no flashcard is kept as a front without back
parse_flashcards_lenient(text, card_format) ==
    LET flashcards ==
            IF card_format = "cloze"
            THEN parse_cloze(split_lines(text), <<>>, <<>>)
            ELSE parse_basic(split_lines(text),
                             [current_front |-> <<>>, current_back |-> <<>>,
                              in_front |-> FALSE, in_back |-> FALSE], <<>>)
    IN  IF card_format # "cloze" /\ flashcards = <<>> /\ strip(text) # <<>>
        THEN << [front |-> strip(text), back |-> <<>>] >>
        ELSE flashcards

\* card_format is what format_combo shows when the text is parsed
parse_flashcards(text, card_format) ==
    IF card_format = "cloze"
    THEN parse_cloze(split_lines(text), <<>>, <<>>)
    ELSE parse_basic(split_lines(text),
                     [current_front |-> <<>>, current_back |-> <<>>,
                      in_front |-> FALSE, in_back |-> FALSE], <<>>)

RECURSIVE parse_single_basic(_, _)
parse_single_basic(lines, st) ==
    IF lines = <<>> THEN st
    ELSE LET line == strip(Head(lines)) IN
         IF starts_front(line)
         THEN parse_single_basic(Tail(lines),
                 [st EXCEPT !.front = strip(Tail(line)),
                            !.in_front = TRUE, !.in_back = FALSE])
         ELSE IF starts_back(line)
         THEN parse_single_basic(Tail(lines),
                 [st EXCEPT !.back = strip(Tail(line)),
                            !.in_front = FALSE, !.in_back = TRUE])
         ELSE IF line # <<>> /\ st.in_front
         THEN parse_single_basic(Tail(lines), [st EXCEPT !.front = @ \o <<"\n">> \o line])
         ELSE IF line # <<>> /\ st.in_back
         THEN parse_single_basic(Tail(lines), [st EXCEPT !.back = @ \o <<"\n">> \o line])
         ELSE parse_single_basic(Tail(lines), st)

parse_single_card(text, card_format) ==
    IF card_format = "cloze"
    THEN [content |-> strip(text)]
    ELSE LET st == parse_single_basic(split_lines(text),
                      [front |-> <<>>, back |-> <<>>,
                       in_front |-> FALSE, in_back |-> FALSE])
         IN  IF st.front = <<>> /\ st.back = <<>>
             THEN [front |-> strip(text),
                   back |-> <<"[Refined content - please add back]">>]
             ELSE [front |-> st.front, back |-> st.back]

\* ------------------------------------------------------------ FlashcardGenerationDialog
\* Widgets of preview_layout are records: the loading widget (which holds the
\* placeholders), a card preview, a label, and the stretch item, which is a
\* layout item without a widget.  Positions and card indices count from 1
\* (index + 1 of the code).  card_checkboxes holds, per checkbox, its state and
\* whether the widget it belongs to has been deleted.
LoadingWidget == [w |-> "loading"]
Placeholder == [w |-> "placeholder"]
Stretch == [w |-> "stretch"]
Label(text) == [w |-> "label", text |-> text]

NewFlashcardDialog(conversation_text) ==
    [kind |-> "flashcards", conversation_text |-> conversation_text,
     format_combo |-> "basic", generated_flashcards |-> <<>>,
     conversation_summary |-> <<>>,
     preview_layout |-> << Label(<<"Click 'Generate Flashcards' to see preview...">>),
                           Stretch >>,
     card_placeholders |-> <<>>, card_checkboxes |-> <<>>,
     create_btn |-> FALSE, refining |-> 0]

FlashcardGenerationWorker_messages(conversation_text, custom_prompt, card_format, card_count) ==
    << [role |-> "system", content |-> <<"flashcard assistant">>],
       [role |-> "user",
        content |-> <<"generate exactly", ToString(card_count), card_format>>
                      \o (IF custom_prompt # <<>> THEN custom_prompt
                          ELSE <<"Create clear, concise flashcards">>)
                      \o conversation_text] >>

generate_flashcards ==
    LET history == get_chat_history(chat_history, win.card) IN
    /\ addon = "collection"
    /\ dialog.kind = "none"
    /\ clicks < MaxClicks
    /\ IF Len(history) < 2
       THEN UNCHANGED vars
       ELSE /\ dialog' = NewFlashcardDialog(conversation_text_of(win.card_content, history))
            /\ UNCHANGED <<addon, chat_manager, old_win, chat_history, clock, win, workers, simple, store,
                           lines_read>>
            /\ clicks' = clicks + 1

\* the user picks an entry of format_combo
set_format(card_format) ==
    /\ dialog.kind = "flashcards"
    /\ dialog.refining = 0
    /\ dialog.format_combo # card_format
    /\ dialog' = [dialog EXCEPT !.format_combo = card_format]
    /\ UNCHANGED <<addon, chat_manager, old_win, chat_history, clock, win, workers, simple, store, lines_read>>
    /\ clicks < MaxClicks /\ clicks' = clicks + 1

clear_preview_cards(d) == [d EXCEPT !.preview_layout = <<>>, !.card_checkboxes = <<>>]

\* the loading widget, and with it the placeholders, is still in the layout
loading_shown(d) == \E p \in DOMAIN d.preview_layout : d.preview_layout[p].w = "loading"

\* QTextEdit(text): the constructor reads its argument as HTML, in which a run
\* of blanks and line breaks is one blank and leading and trailing ones are
\* dropped; the result is what toPlainText() returns afterwards
RECURSIVE collapse(_)
collapse(text) ==
    IF text = <<>> THEN <<>>
    ELSE IF IsSpace(Head(text))
    THEN <<" ">> \o collapse(lstrip(text))
    ELSE <<Head(text)>> \o collapse(Tail(text))

QTextEdit(text) == collapse(strip(text))

\* the widget create_card_preview_widget returns
card_preview_widget(d, flashcard, index) ==
    [w |-> "card", index |-> index, checkbox |-> Len(d.card_checkboxes) + 1,
     text_edits |-> IF d.format_combo = "cloze"
                    THEN <<QTextEdit(flashcard.content)>>
                    ELSE <<QTextEdit(flashcard.front), QTextEdit(flashcard.back)>>]

\* the dialog after create_card_preview_widget: the new checkbox is registered
create_card_preview_widget(d, flashcard, index) ==
    [d EXCEPT !.card_checkboxes = Append(@, [checked |-> FALSE, deleted |-> FALSE])]

\* widget.deleteLater(): the widget's checkbox goes with it
deleteLater(card_checkboxes, widget) ==
    IF widget.w = "card"
    THEN [card_checkboxes EXCEPT ![widget.checkbox].deleted = TRUE]
    ELSE card_checkboxes

\* a checkbox whose widget is gone raises RuntimeError when asked isChecked()
update_create_button_text(d) ==
    LET selected_count ==
            Cardinality({k \in DOMAIN d.card_checkboxes : d.card_checkboxes[k].checked})
    IN  IF \E k \in DOMAIN d.card_checkboxes : d.card_checkboxes[k].deleted
        THEN d
        ELSE [d EXCEPT !.create_btn = (selected_count # 0)]

\* the loop of update_progressive_preview with replace_placeholder_with_card.
\* Once the loading widget has been deleted, placeholder.parent() raises and the
\* handler's except clause ends the loop; the widget just created is dropped.
RECURSIVE replace_placeholders(_, _, _)
replace_placeholders(d, partial_cards, i) ==
    IF i > Len(partial_cards) THEN d
    ELSE IF i > Len(d.card_placeholders) THEN replace_placeholders(d, partial_cards, i + 1)
    ELSE LET card_widget == card_preview_widget(d, partial_cards[i], i)
             made == create_card_preview_widget(d, partial_cards[i], i)
         IN  IF ~loading_shown(d)
             THEN [made EXCEPT !.card_checkboxes[card_widget.checkbox].deleted = TRUE]
             ELSE replace_placeholders(
                    [made EXCEPT
                       !.card_checkboxes = deleteLater(@, d.card_placeholders[i]),
                       !.card_placeholders[i] = card_widget],
                    partial_cards, i + 1)

update_progressive_preview(d, text) ==
    replace_placeholders(d, parse_flashcards(text, d.format_combo), 1)

RECURSIVE add_card_previews(_, _, _)
add_card_previews(d, flashcards, i) ==
    IF i > Len(flashcards) THEN d
    ELSE add_card_previews(
            [create_card_preview_widget(d, flashcards[i], i) EXCEPT
                !.preview_layout = Append(@, card_preview_widget(d, flashcards[i], i))],
            flashcards, i + 1)

\* mutant: the final cards are added to what the streaming preview left
finish_generation_no_clear(d, final_text) ==
    LET kept == [d EXCEPT !.generated_flashcards = final_text]
        flashcards == parse_flashcards(final_text, d.format_combo)
    IN  IF flashcards = <<>>
        THEN [kept EXCEPT !.preview_layout =
                Append(@, Label(<<"Could not parse any valid flashcards">>))]
        ELSE update_create_button_text(
               [add_card_previews(kept, flashcards, 1) EXCEPT
                   !.preview_layout = Append(@, Stretch),
                   !.create_btn = TRUE])

finish_generation(d, final_text) ==
    LET cleared == clear_preview_cards([d EXCEPT !.generated_flashcards = final_text])
        flashcards == parse_flashcards(final_text, d.format_combo)
    IN  IF flashcards = <<>>
        THEN [cleared EXCEPT !.preview_layout =
                << Label(<<"Could not parse any valid flashcards">>) >>]
        ELSE update_create_button_text(
               [add_card_previews(cleared, flashcards, 1) EXCEPT
                   !.preview_layout = Append(@, Stretch),
                   !.create_btn = TRUE])

handle_generation_error(d, error_message) ==
    [clear_preview_cards(d) EXCEPT !.preview_layout =
        << Label(<<"Error generating flashcards: ">> \o error_message) >>]

\* a thread that has been started and whose run() has not returned
running(w) == w.phase \in {"connecting", "streaming"}

\* the host process aborts (Qt: a thread object destroyed while running)
Aborted == [kind |-> "aborted"]

\* The open dialog's attribute slot refers to a new thread.  If the thread it
\* referred to is still running, the only reference to a running thread object is dropped: the
\* object is destroyed when run() returns, either after the thread has wound
\* down (it ran to its end, and is kept here as workers["detached"]) or before,
\* and then the host aborts.  At most one such thread is followed at a time.
rebind(slot, new, d) ==
    IF running(workers[slot]) /\ workers[slot].owner = "dialog"
    THEN /\ ~running(workers["detached"])
         /\ \/ /\ dialog' = d
               /\ workers' = [workers EXCEPT !["detached"] = workers[slot],
                                             ![slot] = new]
            \/ /\ dialog' = Aborted
               /\ workers' = [i \in DOMAIN workers |-> NoWorker]
    ELSE /\ dialog' = d
         /\ workers' = [workers EXCEPT ![slot] = new]

\* the Generate button
start_generation(card_count, custom_prompt) ==
    /\ dialog.kind = "flashcards"
    /\ dialog.refining = 0
    /\ rebind("flashcards",
              NewWorker("flashcards", "dialog",
                 FlashcardGenerationWorker_messages(dialog.conversation_text,
                    strip(custom_prompt), dialog.format_combo, card_count)),
              [clear_preview_cards(dialog) EXCEPT
                  !.preview_layout = <<LoadingWidget>>,
                  !.card_placeholders = [k \in 1..card_count |-> Placeholder],
                  !.create_btn = FALSE])
    /\ UNCHANGED <<addon, chat_manager, old_win, chat_history, clock, win, simple, store, lines_read>>
    /\ clicks < MaxClicks /\ clicks' = clicks + 1

\* the user ticks or unticks the checkbox of a card that is shown
toggle_checkbox(k) ==
    /\ dialog.kind = "flashcards"
    /\ dialog.refining = 0
    /\ k \in DOMAIN dialog.card_checkboxes
    /\ ~dialog.card_checkboxes[k].deleted
    /\ dialog' = update_create_button_text(
                    [dialog EXCEPT !.card_checkboxes[k].checked = ~@])
    /\ UNCHANGED <<addon, chat_manager, old_win, chat_history, clock, win, workers, simple, store, lines_read>>
    /\ clicks < MaxClicks /\ clicks' = clicks + 1

\* the QTextEdit children of the widget at a position of preview_layout, as
\* findChildren(QTextEdit) lists them
RECURSIVE placeholder_edits(_)
placeholder_edits(card_placeholders) ==
    IF card_placeholders = <<>> THEN <<>>
    ELSE (IF Head(card_placeholders).w = "card"
          THEN [j \in DOMAIN Head(card_placeholders).text_edits |->
                  Head(card_placeholders).text_edits[j]]
          ELSE <<>>) \o placeholder_edits(Tail(card_placeholders))

text_edits(d, widget) ==
    CASE widget.w = "card"    -> widget.text_edits
      [] widget.w = "loading" -> placeholder_edits(d.card_placeholders)
      [] OTHER                -> <<>>

\* setPlainText on the n-th QTextEdit child of the widget at position pos
RECURSIVE set_placeholder_edit(_, _, _)
set_placeholder_edit(card_placeholders, n, text) ==
    IF card_placeholders = <<>> THEN <<>>
    ELSE LET here == IF Head(card_placeholders).w = "card"
                     THEN Len(Head(card_placeholders).text_edits) ELSE 0
         IN  IF n >= 1 /\ n <= here
             THEN <<[Head(card_placeholders) EXCEPT !.text_edits[n] = text]>>
                     \o Tail(card_placeholders)
             ELSE <<Head(card_placeholders)>>
                     \o set_placeholder_edit(Tail(card_placeholders), n - here, text)

setPlainText(d, pos, n, text) ==
    IF d.preview_layout[pos].w = "card"
    THEN [d EXCEPT !.preview_layout[pos].text_edits[n] = text]
    ELSE [d EXCEPT !.card_placeholders = set_placeholder_edit(@, n, text)]

\* the user types into a text field of a card that is shown
EditTexts == { <<"e">> }

edit_card(pos, n, text) ==
    /\ dialog.kind = "flashcards"
    /\ dialog.refining = 0
    /\ pos \in DOMAIN dialog.preview_layout
    /\ n \in DOMAIN text_edits(dialog, dialog.preview_layout[pos])
    /\ text_edits(dialog, dialog.preview_layout[pos])[n] # text
    /\ dialog' = setPlainText(dialog, pos, n, text)
    /\ UNCHANGED <<addon, chat_manager, old_win, chat_history, clock, win, workers, simple, store, lines_read>>
    /\ clicks < MaxClicks /\ clicks' = clicks + 1

\* ------------------------------------------------------------ refinement
\* the Refine button of the card preview created with this index: the
\* refinement dialog opens (refining holds the index) unless the guard returns
refine_card(card_index) ==
    /\ dialog.kind = "flashcards"
    /\ dialog.refining = 0
    /\ \/ \E p \in DOMAIN dialog.preview_layout :
             /\ dialog.preview_layout[p].w = "card"
             /\ dialog.preview_layout[p].index = card_index
       \/ /\ loading_shown(dialog)
          /\ \E p \in DOMAIN dialog.card_placeholders :
                /\ dialog.card_placeholders[p].w = "card"
                /\ dialog.card_placeholders[p].index = card_index
    /\ dialog' = IF card_index > Len(dialog.card_checkboxes)
                 THEN dialog
                 ELSE [dialog EXCEPT !.refining = card_index]
    /\ UNCHANGED <<addon, chat_manager, old_win, chat_history, clock, win, workers, simple, store, lines_read>>
    /\ clicks < MaxClicks /\ clicks' = clicks + 1

CardRefinementWorker_messages(current_card, refinement_prompt, card_format) ==
    << [role |-> "system", content |-> <<"refine flashcards">>],
       [role |-> "user",
        content |-> <<"refine: ">> \o refinement_prompt \o
            (IF card_format = "cloze"
             THEN <<"Current cloze card: ">> \o
                    (IF "content" \in DOMAIN current_card
                     THEN current_card.content ELSE <<>>)
             ELSE <<"Current card:", "\n", "Front: ">> \o
                    (IF "front" \in DOMAIN current_card
                     THEN current_card.front ELSE <<>>)
                    \o <<"\n", "Back: ">> \o
                    (IF "back" \in DOMAIN current_card
                     THEN current_card.back ELSE <<>>))
            \o <<card_format>>] >>

\* what the user typed into the refinement dialog
RefinementPrompts == { <<>>, <<"p">> }

\* the refinement dialog is closed: Cancel, or Refine with start_card_refinement
close_refinement(accepted, prompt_input) ==
    LET card_index == dialog.refining
        refinement_prompt == strip(prompt_input)
        flashcards == parse_flashcards(dialog.generated_flashcards, dialog.format_combo)
        closed == [dialog EXCEPT !.refining = 0]
    IN
    /\ dialog.kind = "flashcards"
    /\ dialog.refining # 0
    /\ IF accepted /\ refinement_prompt # <<>> /\ card_index <= Len(flashcards)
       THEN rebind("refinement",
                   [NewWorker("refinement", "dialog",
                       CardRefinementWorker_messages(flashcards[card_index],
                          refinement_prompt, dialog.format_combo))
                    EXCEPT !.card_index = card_index],
                   closed)
       ELSE dialog' = closed /\ UNCHANGED workers
    /\ UNCHANGED <<addon, chat_manager, old_win, chat_history, clock, win, simple, store, lines_read>>
    /\ clicks < MaxClicks /\ clicks' = clicks + 1

\* the completion text a refinement response may carry
RefinedReplies == { <<"Front:", "x", "\n", "Back:", "r">>, <<"r", " ">> }

\* CardRefinementWorker.run: one blocking request, then one signal
CardRefinementWorker_run(i) ==
    /\ workers[i].kind = "refinement"
    /\ workers[i].phase = "connecting"
    /\ \E ok \in BOOLEAN, reply \in RefinedReplies :
          workers' = [workers EXCEPT ![i] =
              IF ok
              THEN [emit(@, finished_signal(strip(reply))) EXCEPT
                       !.phase = "finished", !.outcome = "done"]
              ELSE run_except(@)]
    /\ UNCHANGED <<addon, chat_manager, old_win, chat_history, clock, win, simple, dialog, store, lines_read, clicks>>

\* itemAt(card_index) past the end is None and .widget() raises; the stretch
\* item has no widget
update_card_content(d, card_index, refined_content) ==
    LET refined_card == parse_single_card(refined_content, d.format_combo)
        edits == text_edits(d, d.preview_layout[card_index])
    IN  IF card_index > Len(d.preview_layout) THEN d
        ELSE IF d.preview_layout[card_index].w = "stretch" THEN d
        ELSE IF d.format_combo = "cloze"
        THEN IF Len(edits) >= 1
             THEN setPlainText(d, card_index, 1, refined_card.content)
             ELSE d
        ELSE IF Len(edits) >= 2
             THEN setPlainText(setPlainText(d, card_index, 1, refined_card.front),
                               card_index, 2, refined_card.back)
             ELSE d

\* ------------------------------------------------------------ commit
\* mutant: a failed summary request leaves the summary empty
generate_conversation_summary_sync_empty(ok, reply) ==
    IF ok THEN strip(reply) ELSE <<>>

\* the text generate_conversation_summary_sync leaves in conversation_summary
generate_conversation_summary_sync(ok, reply) ==
    IF ok THEN strip(reply) ELSE <<"Error generating conversation summary">>

note_type_name(card_format) ==
    IF card_format = "cloze" THEN "AI Chat Cloze" ELSE "AI Chat Basic"

\* the answer template either function writes for the format
afmt(card_format) ==
    IF card_format = "cloze" THEN "cloze answer with summary button"
    ELSE "basic answer with summary button"

\* the note type models.new builds before it is added
new_note_type(card_format) ==
    IF card_format = "cloze"
    THEN [name |-> note_type_name("cloze"), type |-> 1,
          flds |-> <<"Text", "Extra", "AI Conversation Summary">>,
          tmpls |-> << afmt("cloze") >>]
    ELSE [name |-> note_type_name("basic"), type |-> 0,
          flds |-> <<"Front", "Back", "AI Conversation Summary">>,
          tmpls |-> << afmt("basic") >>]

update_existing_template(note_type, card_format) ==
    IF note_type.tmpls = <<>> THEN note_type
    ELSE [note_type EXCEPT !.tmpls[1] = afmt(card_format)]

\* models.by_name: the position of the first note type of that name, 0 if none
by_name(note_types, name) ==
    IF \E k \in DOMAIN note_types : note_types[k].name = name
    THEN CHOOSE k \in DOMAIN note_types :
            /\ note_types[k].name = name
            /\ \A j \in 1..(k - 1) : note_types[j].name # name
    ELSE 0

\* mutant: the note type is built and added without looking for an existing one
get_or_create_always_new(note_types, card_format) ==
    Append(note_types, new_note_type(card_format))

\* the note types of the collection after get_or_create_addon_note_type
get_or_create_addon_note_type(note_types, card_format) ==
    LET existing_type == by_name(note_types, note_type_name(card_format)) IN
    IF existing_type # 0
    THEN [note_types EXCEPT ![existing_type] = update_existing_template(@, card_format)]
    ELSE Append(note_types, new_note_type(card_format))

get_current_card_content(d, widget, original_card) ==
    LET edits == text_edits(d, widget) IN
    IF d.format_combo = "cloze"
    THEN IF Len(edits) >= 1 THEN [content |-> edits[1]] ELSE original_card
    ELSE IF Len(edits) >= 2 THEN [front |-> edits[1], back |-> edits[2]]
         ELSE original_card

\* the loop that collects selected_flashcards; raised is set where the code
\* raises (a deleted checkbox, or no layout item at the position)
RECURSIVE select_flashcards(_, _, _, _)
select_flashcards(d, flashcards, i, selected_flashcards) ==
    IF i > Len(flashcards)
    THEN [raised |-> FALSE, selected_flashcards |-> selected_flashcards]
    ELSE IF i > Len(d.card_checkboxes)
    THEN select_flashcards(d, flashcards, i + 1, selected_flashcards)
    ELSE IF d.card_checkboxes[i].deleted
    THEN [raised |-> TRUE, selected_flashcards |-> selected_flashcards]
    ELSE IF ~d.card_checkboxes[i].checked
    THEN select_flashcards(d, flashcards, i + 1, selected_flashcards)
    ELSE IF i > Len(d.preview_layout)
    THEN [raised |-> TRUE, selected_flashcards |-> selected_flashcards]
    ELSE select_flashcards(d, flashcards, i + 1,
            Append(selected_flashcards,
                   IF d.preview_layout[i].w = "stretch"
                   THEN flashcards[i]
                   ELSE get_current_card_content(d, d.preview_layout[i], flashcards[i])))

\* mutant: the first failure ends the creation loop
RECURSIVE new_notes_abort(_, _, _, _, _)
new_notes_abort(d, original_card, selected_flashcards, i, add_fails) ==
    IF i > Len(selected_flashcards) \/ i \in add_fails THEN <<>>
    ELSE LET flashcard == selected_flashcards[i]
             rest == new_notes_abort(d, original_card, selected_flashcards, i + 1, add_fails)
         IN  IF d.format_combo = "cloze"
             THEN IF "content" \in DOMAIN flashcard
                  THEN << [note_type |-> note_type_name("cloze"),
                           deck_of |-> original_card, tags_of |-> original_card,
                           fields |-> <<flashcard.content, <<>>,
                                        d.conversation_summary>>] >> \o rest
                  ELSE <<>>
             ELSE IF {"front", "back"} \subseteq DOMAIN flashcard
                  THEN << [note_type |-> note_type_name("basic"),
                           deck_of |-> original_card, tags_of |-> original_card,
                           fields |-> <<flashcard.front, flashcard.back,
                                        d.conversation_summary>>] >> \o rest
                  ELSE <<>>

\* the notes the creation loop adds, from selected_flashcards[i] on.  add_fails
\* holds the positions at which new_note or add_note raises; a flashcard
\* without the key the format asks for raises KeyError; either way the except
\* clause of the loop goes on with the next flashcard
RECURSIVE new_notes(_, _, _, _, _)
new_notes(d, original_card, selected_flashcards, i, add_fails) ==
    IF i > Len(selected_flashcards) THEN <<>>
    ELSE LET flashcard == selected_flashcards[i]
             rest == new_notes(d, original_card, selected_flashcards, i + 1, add_fails)
         IN  IF i \in add_fails THEN rest
             ELSE IF d.format_combo = "cloze"
             THEN IF "content" \in DOMAIN flashcard
                  THEN << [note_type |-> note_type_name("cloze"),
                           deck_of |-> original_card, tags_of |-> original_card,
                           fields |-> <<flashcard.content, <<>>,
                                        d.conversation_summary>>] >> \o rest
                  ELSE rest
             ELSE IF {"front", "back"} \subseteq DOMAIN flashcard
                  THEN << [note_type |-> note_type_name("basic"),
                           deck_of |-> original_card, tags_of |-> original_card,
                           fields |-> <<flashcard.front, flashcard.back,
                                        d.conversation_summary>>] >> \o rest
                  ELSE rest

\* the dialog's workers lose their visible owner
orphan_all == [i \in DOMAIN workers |-> orphan(i)]

\* the Create button.  ok and reply are the outcome of the summary request,
\* add_fails the selected flashcards the collection fails to take.  Every
\* flashcard the loop does not add prints one "Error creating flashcard" line.
create_flashcards(ok, reply, add_fails) ==
    LET card_format == dialog.format_combo
        summarized == [dialog EXCEPT !.conversation_summary =
                          generate_conversation_summary_sync(ok, reply)]
        flashcards == parse_flashcards(dialog.generated_flashcards, card_format)
        selection == select_flashcards(summarized, flashcards, 1, <<>>)
        selected_flashcards == selection.selected_flashcards
        created == new_notes(summarized, win.card, selected_flashcards, 1, add_fails)
        created_count == Len(created)
        raising == {i \in DOMAIN selected_flashcards :
                       \/ i \in add_fails
                       \/ IF card_format = "cloze"
                          THEN "content" \notin DOMAIN selected_flashcards[i]
                          ELSE ~({"front", "back"} \subseteq DOMAIN selected_flashcards[i])}
        with_type == [store EXCEPT !.note_types =
                         get_or_create_addon_note_type(@, card_format)]
    IN
    /\ dialog.kind = "flashcards"
    /\ dialog.refining = 0
    /\ dialog.create_btn
    /\ UNCHANGED <<addon, chat_manager, old_win, chat_history, clock, win, simple, lines_read>>
    /\ clicks < MaxClicks /\ clicks' = clicks + 1
    /\ IF dialog.generated_flashcards = <<>>
       THEN UNCHANGED <<dialog, workers, store>>
       ELSE IF flashcards = <<>> \/ selection.raised \/ selected_flashcards = <<>>
       THEN /\ dialog' = summarized
            /\ store' = with_type
            /\ UNCHANGED workers
       ELSE IF created_count = 0
       THEN /\ dialog' = summarized
            /\ store' = [with_type EXCEPT
                            !.printed = @ + Cardinality(raising)]
            /\ UNCHANGED workers
       ELSE /\ dialog' = NoDialog
            /\ store' = [with_type EXCEPT
                            !.notes = @ \o created,
                            !.printed = @ + Cardinality(raising),
                            !.showInfo = created_count]
            /\ workers' = orphan_all

\* Cancel, or the window's close button
flashcards_reject ==
    /\ dialog.kind = "flashcards"
    /\ dialog.refining = 0
    /\ dialog' = NoDialog
    /\ workers' = orphan_all
    /\ UNCHANGED <<addon, chat_manager, old_win, chat_history, clock, win, simple, store, lines_read>>
    /\ clicks < MaxClicks /\ clicks' = clicks + 1

\* the UI thread handles the oldest undelivered signal of a generation thread
deliver_flashcards(i) ==
    /\ workers[i].kind = "flashcards"
    /\ pending(i)
    /\ workers' = [workers EXCEPT ![i].delivered = @ + 1]
    /\ dialog' =
         IF workers[i].owner = "closed" THEN dialog
         ELSE CASE next_signal(i).sig = "chunk" ->
                      update_progressive_preview(dialog, next_signal(i).text)
                [] next_signal(i).sig = "done"  ->
                      finish_generation(dialog, next_signal(i).text)
                [] next_signal(i).sig = "error" ->
                      handle_generation_error(dialog, next_signal(i).text)
    /\ UNCHANGED <<addon, chat_manager, old_win, chat_history, clock, win, simple, store, lines_read, clicks>>

\* refinement_complete runs update_card_content with the index the lambda
\* captured; error_occurred shows a warning
deliver_refinement(i) ==
    /\ workers[i].kind = "refinement"
    /\ pending(i)
    /\ workers' = [workers EXCEPT ![i].delivered = @ + 1]
    /\ dialog' =
         IF workers[i].owner = "closed" \/ next_signal(i).sig = "error" THEN dialog
         ELSE update_card_content(dialog, workers[i].card_index, next_signal(i).text)
    /\ UNCHANGED <<addon, chat_manager, old_win, chat_history, clock, win, simple, store, lines_read, clicks>>

\* ------------------------------------------------------------ thread steps
\* urlopen returns a response, or raises (connect failure, timeout, HTTP error)
worker_connect(i) ==
    /\ workers[i].phase = "connecting"
    /\ \E ok \in BOOLEAN :
          workers' = [workers EXCEPT ![i] =
                        IF ok THEN [@ EXCEPT !.phase = "streaming"] ELSE run_except(@)]
    /\ UNCHANGED <<addon, chat_manager, old_win, chat_history, clock, win, simple, dialog, store, lines_read, clicks>>

worker_read(i) ==
    /\ workers[i].phase = "streaming"
    /\ \E ev \in EventsOf(workers[i].kind) :
          /\ ev.t = "done" \/ lines_read < MaxLines
          /\ workers' = [workers EXCEPT ![i] = run_line(@, ev)]
          /\ lines_read' = IF ev.t = "done" THEN lines_read ELSE lines_read + 1
    /\ UNCHANGED <<addon, chat_manager, old_win, chat_history, clock, win, simple, dialog, store, clicks>>

\* the stream ends: end of body, or the transport raises while iterating
worker_end(i) ==
    /\ workers[i].phase = "streaming"
    /\ \E failed \in BOOLEAN :
          workers' = [workers EXCEPT ![i] = IF failed THEN run_except(@) ELSE run_eof(@)]
    /\ UNCHANGED <<addon, chat_manager, old_win, chat_history, clock, win, simple, dialog, store, lines_read, clicks>>

StreamingWorker_run(i) ==
    /\ workers[i].kind = "chat"
    /\ (worker_connect(i) \/ worker_read(i) \/ worker_end(i))

\* ------------------------------------------------------------ AIChatWindow
\* (ai_chat_simple.py)  pc is "calling" while send_message is blocked in
\* urlopen; messages is the request it sent.
NewSimpleWindow(card) ==
    [card |-> card, card_content |-> get_card_content(card), send_button |-> TRUE,
     display |-> [i \in 1..Len(get_chat_history(chat_history, card)) |->
                    [role |-> get_chat_history(chat_history, card)[i].role,
                     text |-> get_chat_history(chat_history, card)[i].content]],
     pc |-> "idle", user_message |-> <<>>, messages |-> <<>>, raised |-> FALSE]

append_to_chat(w, role, text) ==
    [w EXCEPT !.display = Append(@, [role |-> role, text |-> text])]

\* history[-6:]
last6(history) ==
    IF Len(history) <= 6 THEN history ELSE SubSeq(history, Len(history) - 5, Len(history))

\* the messages list get_ai_response builds; table is the table at that time
simple_messages(table, card, card_content, user_message) ==
    LET recent_history == last6(get_chat_history(table, card)) IN
    << [role |-> "system", content |-> <<"study assistant">> \o card_content] >>
      \o [i \in 1..Len(recent_history) |->
            [role |-> recent_history[i].role, content |-> recent_history[i].content]]
      \o << [role |-> "user", content |-> user_message] >>

\* send_message up to the blocking urlopen inside get_ai_response
simple_send_message(input) ==
    LET user_message == strip(input)
        saved == save_message(chat_history, simple.card, "user", user_message) IN
    /\ addon = "simple"
    /\ simple.pc = "idle"
    /\ SavedSoFar < MaxHistory
    /\ IF user_message = <<>>
       THEN UNCHANGED vars
       ELSE /\ chat_history' = saved
            /\ clock' = clock + 1
            /\ simple' = [append_to_chat(simple, "user", user_message) EXCEPT
                             !.send_button = FALSE,
                             !.pc = "calling",
                             !.user_message = user_message,
                             !.messages = simple_messages(saved, simple.card,
                                              simple.card_content, user_message)]
            /\ UNCHANGED <<addon, chat_manager, old_win, win, workers, dialog, store, lines_read, clicks>>

\* what get_ai_response returns: the stripped completion, or the apology text
\* built in its except clause
get_ai_response_result(ok, reply) ==
    IF ok THEN strip(reply) ELSE <<"Sorry, I couldn't process your request right now. Error: ">>

\* urlopen returns or raises, and send_message runs to its end; raised keeps
\* whether the except clause of get_ai_response ran
simple_send_message_resume(ok, reply) ==
    LET ai_response == get_ai_response_result(ok, reply) IN
    /\ addon = "simple"
    /\ simple.pc = "calling"
    /\ IF ai_response # <<>>
       THEN /\ chat_history' = save_message(chat_history, simple.card, "assistant", ai_response)
            /\ clock' = clock + 1
            /\ simple' = [append_to_chat(simple, "assistant", ai_response) EXCEPT
                             !.send_button = TRUE, !.pc = "idle", !.raised = ~ok]
       ELSE /\ simple' = [simple EXCEPT !.send_button = TRUE, !.pc = "idle",
                                        !.raised = ~ok]
            /\ UNCHANGED <<chat_history, clock>>
    /\ UNCHANGED <<addon, chat_manager, old_win, win, workers, dialog, store, lines_read, clicks>>

\* the Clear History button, confirmed by the user
simple_clear_chat_history ==
    /\ addon = "simple"
    /\ simple.pc = "idle"
    /\ chat_history # <<>>
    /\ chat_history' = clear_chat_history(chat_history, simple.card)
    /\ simple' = [simple EXCEPT !.display = <<>>]
    /\ UNCHANGED <<addon, chat_manager, old_win, clock, win, workers, dialog, store, lines_read, clicks>>

\* ------------------------------------------------------------ specification
\* the note field the summary is saved to, the note types of the collection,
\* the notes the add-on has added to it, the number of "Error creating
\* flashcard" lines printed so far, and the count in the last "Successfully
\* created n flashcard(s)!" message (0: none shown)
NewStore ==
    [note_field |-> <<>>, note_types |-> <<>>, notes |-> <<>>, printed |-> 0,
     showInfo |-> 0]

Init ==
    /\ addon \in {"collection", "simple"}
    /\ chat_history = <<>>
    /\ clock = 1
    /\ workers = [i \in WorkerSlots |-> NoWorker]
    /\ dialog = NoDialog
    /\ store = NewStore
    /\ lines_read = 0
    /\ clicks = 0
    /\ \E card \in Cards : win = NewWindow(card) /\ simple = NewSimpleWindow(card)
    /\ chat_manager = [current_card |-> win.card, current_window |-> TRUE]
    /\ old_win = NoWindow

SummaryWorker_run(i) ==
    /\ workers[i].kind = "summary"
    /\ (worker_connect(i) \/ worker_read(i) \/ worker_end(i))

FlashcardGenerationWorker_run(i) ==
    /\ workers[i].kind = "flashcards"
    /\ (worker_connect(i) \/ worker_read(i) \/ worker_end(i))

\* values of card_count_spin and texts of custom_prompt the user generates with
CardCounts == {1, 2}
CustomPrompts == { <<>> }
\* what the user can point at in the open flashcard dialog
Checkboxes == IF dialog.kind = "flashcards" THEN DOMAIN dialog.card_checkboxes ELSE {}
Positions == IF dialog.kind = "flashcards" THEN DOMAIN dialog.preview_layout ELSE {}
TextEditsPerWidget == {1, 2}

\* ------------------------------------------------------------ ChatManager
\* mutant: closing a window does not hide it
close_stays_open(w) == w

\* close(): the window is hidden; closeEvent stores its size and nothing else,
\* so the window object, its worker and the signal connections stay as they are
close(w) == [w EXCEPT !.visible = FALSE]

\* the user closes the chat window
closeEvent ==
    /\ addon = "collection"
    /\ dialog.kind = "none"
    /\ win.visible
    /\ win' = close(win)
    /\ UNCHANGED <<addon, chat_manager, old_win, chat_history, clock, workers, simple,
                   dialog, store, lines_read, clicks>>

\* the reviewer shows the question or the answer of a card
update_card(card) ==
    /\ addon = "collection"
    /\ dialog.kind = "none"
    /\ IF chat_manager.current_window /\ win.card # card
       THEN /\ win' = close(win)
            /\ chat_manager' = [current_card |-> card, current_window |-> FALSE]
       ELSE /\ win' = win
            /\ chat_manager' = [chat_manager EXCEPT !.current_card = card]
    /\ UNCHANGED <<addon, old_win, chat_history, clock, workers, simple, dialog, store,
                   lines_read, clicks>>

\* a session that has been started and still has something to run or deliver
in_flight(w) == running(w) \/ w.delivered < Len(w.emitted)

\* the menu action, the shortcut or the floating button.  The window that
\* is replaced keeps its worker; a session of it that is still in flight is
\* followed as workers["detached"], at most one at a time.
open_chat_window ==
    /\ addon = "collection"
    /\ dialog.kind = "none"
    /\ IF chat_manager.current_card = "none"
       THEN UNCHANGED vars
       ELSE /\ ~in_flight(workers["detached"])
            /\ old_win' = IF chat_manager.current_window THEN close(win) ELSE win
            /\ win' = NewWindow(chat_manager.current_card)
            /\ chat_manager' = [chat_manager EXCEPT !.current_window = TRUE]
            /\ workers' = IF in_flight(workers["chat"])
                          THEN [workers EXCEPT
                                  !["detached"] = [workers["chat"] EXCEPT !.owner = "closed"],
                                  !["chat"] = NoWorker]
                          ELSE [workers EXCEPT !["chat"] = NoWorker]
            /\ UNCHANGED <<addon, chat_history, clock, simple, dialog, store, lines_read,
                           clicks>>

\* the slots of a replaced window run on that window
update_streaming_bubble_of(w, text) ==
    IF w.current_ai_bubble # 0
    THEN [w EXCEPT !.bubbles[w.current_ai_bubble].text = convert_markdown_to_html(text)]
    ELSE w

finish_streaming_response_of(w, final_text) ==
    set_input_enabled(
       IF w.current_ai_bubble # 0
       THEN [w EXCEPT !.bubbles[w.current_ai_bubble].text =
                          convert_markdown_to_html(final_text),
                      !.current_ai_bubble = 0]
       ELSE w, TRUE)

handle_streaming_error_of(w, error_message) ==
    set_input_enabled(
       IF w.current_ai_bubble # 0
       THEN [w EXCEPT !.bubbles[w.current_ai_bubble].text = <<"Error: ">> \o error_message,
                      !.current_ai_bubble = 0]
       ELSE w, TRUE)

\* the event loop runs the slot of the replaced window that is connected to
\* the oldest undelivered signal of its worker
deliver_closed_chat(i) ==
    /\ workers[i].kind = "chat"
    /\ workers[i].owner = "closed"
    /\ pending(i)
    /\ workers' = [workers EXCEPT ![i].delivered = @ + 1]
    /\ UNCHANGED <<addon, chat_manager, win, simple, dialog, store, lines_read, clicks>>
    /\ CASE next_signal(i).sig = "chunk" ->
              /\ old_win' = update_streaming_bubble_of(old_win, next_signal(i).text)
              /\ UNCHANGED <<chat_history, clock>>
         [] next_signal(i).sig = "done" ->
              /\ old_win' = finish_streaming_response_of(old_win, next_signal(i).text)
              /\ chat_history' = save_message(chat_history, old_win.card, "assistant",
                                              next_signal(i).text)
              /\ clock' = clock + 1
         [] next_signal(i).sig = "error" ->
              /\ old_win' = handle_streaming_error_of(old_win, next_signal(i).text)
              /\ UNCHANGED <<chat_history, clock>>

\* the chat turn, in either add-on
Next ==
    \/ \E input \in UserInputs : simple_send_message(input)
    \/ \E ok \in BOOLEAN, reply \in Replies : simple_send_message_resume(ok, reply)
    \/ simple_clear_chat_history
    \/ \E input \in UserInputs : send_message(input)
    \/ \E i \in WorkerSlots : StreamingWorker_run(i)
    \/ \E i \in WorkerSlots : deliver_chat(i)

Spec == Init /\ [][Next]_vars

\* The chat turn with its scheduling: a started thread keeps running until
\* run() returns (urlopen is given a timeout, so it returns or raises), and the
\* UI thread's event loop keeps handling the signals queued to it.
SpecLive ==
    /\ Init /\ [][Next]_vars
    /\ WF_vars(\E i \in WorkerSlots : StreamingWorker_run(i))
    /\ WF_vars(\E i \in WorkerSlots : deliver_chat(i))

\* The chat manager: the reviewer reports cards, the user opens and closes
\* chat windows and sends messages.  No card has been shown and no window
\* has been opened at the start.
InitManager ==
    /\ addon = "collection"
    /\ chat_history = <<>>
    /\ clock = 1
    /\ workers = [i \in WorkerSlots |-> NoWorker]
    /\ dialog = NoDialog
    /\ store = NewStore
    /\ lines_read = 0
    /\ clicks = 0
    /\ win = NoWindow
    /\ old_win = NoWindow
    /\ simple = NewSimpleWindow("c1")
    /\ chat_manager = [current_card |-> "none", current_window |-> FALSE]

NextManager ==
    \/ \E card \in Cards : update_card(card)
    \/ open_chat_window
    \/ closeEvent
    \/ \E input \in UserInputs : send_message(input)
    \/ \E i \in WorkerSlots : StreamingWorker_run(i)
    \/ \E i \in WorkerSlots : deliver_chat(i)
    \/ \E i \in WorkerSlots : deliver_closed_chat(i)

SpecManager == InitManager /\ [][NextManager]_vars

\* ------------------------------------------------------------ the database alone
\* The methods of ChatDatabase called in any order on any card.  save_message
\* stamps a row with datetime.now(), the local wall clock, which the system can
\* set forward or back between two calls.
MaxRows == 3
MaxClock == 4

ChatDatabase_save_message(card_id, role, content) ==
    /\ Len(chat_history) < MaxRows
    /\ clock < MaxClock
    /\ chat_history' = save_message(chat_history, card_id, role, content)
    /\ clock' = clock + 1
    /\ UNCHANGED <<addon, chat_manager, old_win, win, workers, simple, dialog, store,
                   lines_read, clicks>>

ChatDatabase_clear_chat_history(card_id) ==
    /\ chat_history' = clear_chat_history(chat_history, card_id)
    /\ UNCHANGED <<addon, chat_manager, old_win, clock, win, workers, simple, dialog,
                   store, lines_read, clicks>>

\* the wall clock is set (daylight saving time ends, the time zone changes,
\* the clock is synchronised)
wall_clock_set(t) ==
    /\ clock' = t
    /\ UNCHANGED <<addon, chat_manager, old_win, chat_history, win, workers, simple,
                   dialog, store, lines_read, clicks>>

InitDatabase ==
    /\ addon = "collection"
    /\ chat_history = <<>>
    /\ clock = 1
    /\ workers = [i \in WorkerSlots |-> NoWorker]
    /\ dialog = NoDialog
    /\ store = NewStore
    /\ lines_read = 0
    /\ clicks = 0
    /\ win = NoWindow
    /\ old_win = NoWindow
    /\ simple = NewSimpleWindow("c1")
    /\ chat_manager = [current_card |-> "none", current_window |-> FALSE]

NextDatabase ==
    \/ \E card_id \in Cards, role \in {"user", "assistant"}, content \in {<<"q">>, <<"a">>} :
          ChatDatabase_save_message(card_id, role, content)
    \/ \E card_id \in Cards : ChatDatabase_clear_chat_history(card_id)
    \/ \E t \in 1..MaxClock : wall_clock_set(t)

SpecDatabase == InitDatabase /\ [][NextDatabase]_vars

\* The derived operations start from a chat window opened on card "c1" whose
\* conversation is already in the table, beside a row of another card.
StoredHistories ==
    { << <<"c1", "user", <<"q">> >>, <<"c2", "user", <<"r">> >>,
         <<"c1", "assistant", <<"a">> >> >>,
      << <<"c1", "user", <<"q">> >> >> }

InitDerived ==
    /\ addon = "collection"
    /\ \E h \in StoredHistories :
          /\ chat_history = [k \in 1..Len(h) |->
                               [card_id |-> h[k][1], timestamp |-> k,
                                role |-> h[k][2], content |-> h[k][3]]]
          /\ clock = Len(h) + 1
          /\ win = NewWindow("c1")
          /\ simple = NewSimpleWindow("c1")
    /\ chat_manager = [current_card |-> "c1", current_window |-> TRUE]
    /\ old_win = NoWindow
    /\ workers = [i \in WorkerSlots |-> NoWorker]
    /\ dialog = NoDialog
    /\ store = NewStore
    /\ lines_read = 0
    /\ clicks = 0

NextDerived ==
    \/ generate_conversation_summary
    \/ \E i \in WorkerSlots : SummaryWorker_run(i)
    \/ \E i \in WorkerSlots : deliver_summary(i)
    \/ summary_reject
    \/ \E append_checked \in BOOLEAN : save_to_card(append_checked)
    \/ generate_flashcards
    \/ \E card_format \in {"basic", "cloze"} : set_format(card_format)
    \/ \E card_count \in CardCounts, custom_prompt \in CustomPrompts :
          start_generation(card_count, custom_prompt)
    \/ \E i \in WorkerSlots : FlashcardGenerationWorker_run(i)
    \/ \E i \in WorkerSlots : deliver_flashcards(i)
    \/ \E k \in Checkboxes : toggle_checkbox(k)
    \/ \E pos \in Positions, n \in TextEditsPerWidget, text \in EditTexts :
          edit_card(pos, n, text)
    \/ \E card_index \in CardCounts : refine_card(card_index)
    \/ \E accepted \in BOOLEAN, prompt_input \in RefinementPrompts :
          close_refinement(accepted, prompt_input)
    \/ \E i \in WorkerSlots : CardRefinementWorker_run(i)
    \/ \E i \in WorkerSlots : deliver_refinement(i)
    \/ \E ok \in BOOLEAN, reply \in Replies, add_fails \in SUBSET Checkboxes :
          create_flashcards(ok, reply, add_fails)
    \/ flashcards_reject

SpecDerived == InitDerived /\ [][NextDerived]_vars

\* The worker threads alone: sessions are started and run to their end, and
\* no signal is handled.
NextWorker ==
    \/ \E input \in UserInputs : send_message(input)
    \/ generate_conversation_summary
    \/ generate_flashcards
    \/ \E card_count \in CardCounts, custom_prompt \in CustomPrompts :
          start_generation(card_count, custom_prompt)
    \/ \E i \in WorkerSlots : StreamingWorker_run(i)
    \/ \E i \in WorkerSlots : SummaryWorker_run(i)
    \/ \E i \in WorkerSlots : FlashcardGenerationWorker_run(i)

SpecWorker == InitDerived /\ [][NextWorker]_vars

\* The flashcard parser on generated texts: the flashcard dialog is open in
\* either format, its generation has been started, and the worker has read one
\* content line carrying the whole text and then [DONE]; the UI thread has yet
\* to handle the two signals.  The texts are all sequences of at most
\* MaxParseLines lines over ParseLines, joined with line breaks.
MaxParseLines == 5

ParseLines ==
    { <<"Front:", "x">>, <<"Back:", "y">>, <<"z">>, <<>>, <<" ">>,
      <<"w", "{{c">>, <<"Front:">> }

\* "\n".join(lines)
RECURSIVE join_lines(_)
join_lines(lines) ==
    IF lines = <<>> THEN <<>>
    ELSE IF Len(lines) = 1 THEN lines[1]
    ELSE lines[1] \o <<"\n">> \o join_lines(Tail(lines))

ParseTexts ==
    { join_lines(ls) : ls \in UNION { [1..n -> ParseLines] : n \in 1..MaxParseLines } }
        \ { <<>> }

InitParse ==
    /\ addon = "collection"
    /\ \E h \in StoredHistories :
          /\ Len(h) >= 2
          /\ chat_history = [k \in 1..Len(h) |->
                               [card_id |-> h[k][1], timestamp |-> k,
                                role |-> h[k][2], content |-> h[k][3]]]
          /\ clock = Len(h) + 1
    /\ win = NewWindow("c1")
    /\ simple = NewSimpleWindow("c1")
    /\ chat_manager = [current_card |-> "c1", current_window |-> TRUE]
    /\ old_win = NoWindow
    /\ store = NewStore
    /\ lines_read = 1
    /\ \E card_format \in {"basic", "cloze"}, text \in ParseTexts :
          LET opened == [NewFlashcardDialog(
                            conversation_text_of(win.card_content,
                               get_chat_history(chat_history, "c1")))
                         EXCEPT !.format_combo = card_format]
              started == NewWorker("flashcards", "dialog",
                            FlashcardGenerationWorker_messages(
                               opened.conversation_text, <<>>, card_format, 2))
              streamed == run_line(run_line([started EXCEPT !.phase = "streaming"],
                                            [t |-> "content", c |-> text]),
                                   [t |-> "done"])
          IN  /\ dialog = [clear_preview_cards(opened) EXCEPT
                             !.preview_layout = <<LoadingWidget>>,
                             !.card_placeholders = [k \in 1..2 |-> Placeholder],
                             !.create_btn = FALSE]
              /\ workers = [i \in WorkerSlots |->
                              IF i = "flashcards" THEN streamed ELSE NoWorker]
              /\ clicks = IF card_format = "cloze" THEN 3 ELSE 2

NextParse == \E i \in WorkerSlots : deliver_flashcards(i)

SpecParse == InitParse /\ [][NextParse]_vars

\* Commit of a generated preview: the flashcard dialog shows the final parse of
\* a generated text (the worker has finished and both its signals have been
\* handled), and the collection is new or already holds the basic note type of
\* an earlier version, with a field the user added.  clicks counts from here.
CommitTexts ==
    { <<"Front:", "x", "\n", "Back:", "y", "\n", "\n", "Front:", "z", "\n", "Back:", "y">>,
      <<"{{c", "z", "\n", "\n", "w", "{{c">>,
      <<"Front:", "{{c", "\n", "Back:", "y">> }

ExistingNoteTypes ==
    { <<>>,
      << [name |-> "AI Chat Basic", type |-> 0,
          flds |-> <<"Front", "Back", "AI Conversation Summary", "Notes">>,
          tmpls |-> << "basic answer" >>] >> }

InitCommit ==
    /\ addon = "collection"
    /\ \E h \in StoredHistories :
          /\ Len(h) >= 2
          /\ chat_history = [k \in 1..Len(h) |->
                               [card_id |-> h[k][1], timestamp |-> k,
                                role |-> h[k][2], content |-> h[k][3]]]
          /\ clock = Len(h) + 1
    /\ win = NewWindow("c1")
    /\ simple = NewSimpleWindow("c1")
    /\ chat_manager = [current_card |-> "c1", current_window |-> TRUE]
    /\ old_win = NoWindow
    /\ \E note_types \in ExistingNoteTypes :
          store = [NewStore EXCEPT !.note_types = note_types]
    /\ lines_read = 1
    /\ clicks = 0
    /\ \E card_format \in {"basic", "cloze"}, text \in CommitTexts :
          LET opened == [NewFlashcardDialog(
                            conversation_text_of(win.card_content,
                               get_chat_history(chat_history, "c1")))
                         EXCEPT !.format_combo = card_format]
              started == NewWorker("flashcards", "dialog",
                            FlashcardGenerationWorker_messages(
                               opened.conversation_text, <<>>, card_format, 2))
              streamed == run_line(run_line([started EXCEPT !.phase = "streaming"],
                                            [t |-> "content", c |-> text]),
                                   [t |-> "done"])
              loading == [clear_preview_cards(opened) EXCEPT
                             !.preview_layout = <<LoadingWidget>>,
                             !.card_placeholders = [k \in 1..2 |-> Placeholder],
                             !.create_btn = FALSE]
          IN  /\ dialog = finish_generation(update_progressive_preview(loading, text), text)
              /\ workers = [i \in WorkerSlots |->
                              IF i = "flashcards"
                              THEN [streamed EXCEPT !.delivered = Len(streamed.emitted)]
                              ELSE NoWorker]

NextCommit ==
    \/ \E card_format \in {"basic", "cloze"} : set_format(card_format)
    \/ \E k \in Checkboxes : toggle_checkbox(k)
    \/ \E pos \in Positions, n \in TextEditsPerWidget, text \in EditTexts :
          edit_card(pos, n, text)
    \/ \E card_index \in CardCounts : refine_card(card_index)
    \/ \E accepted \in BOOLEAN, prompt_input \in RefinementPrompts :
          close_refinement(accepted, prompt_input)
    \/ \E i \in WorkerSlots : CardRefinementWorker_run(i)
    \/ \E i \in WorkerSlots : deliver_refinement(i)
    \/ \E ok \in BOOLEAN, reply \in Replies, add_fails \in SUBSET Checkboxes :
          create_flashcards(ok, reply, add_fails)
    \/ flashcards_reject

SpecCommit == InitCommit /\ [][NextCommit]_vars

\* ============================================================ claims
\* positions of the terminal signals (done or error) in a signal log
Terminals(e) == {k \in DOMAIN e : e[k].sig \in {"done", "error"}}
Started == {i \in WorkerSlots : workers[i].phase # "none"}
\* a session is active until the UI thread has handled its terminal signal
Active(i) ==
    /\ workers[i].phase # "none"
    /\ (workers[i].phase # "finished" \/ pending(i))
\* the cumulative text after the first k fragments of f
Cumulative(f, k) == concat(SubSeq(f, 1, k))
\* the last row of the table (a row of no card if the table is empty)
LastRow ==
    IF chat_history = <<>>
    THEN [card_id |-> "none", timestamp |-> 0, role |-> "none", content |-> <<>>]
    ELSE chat_history[Len(chat_history)]
\* the user message of the chat turn the chat worker was started for
TurnMessage == workers["chat"].messages[2].content
\* this step starts a chat turn's session (streaming add-on) or request
\* (blocking add-on)
StartsSession ==
    /\ workers'["chat"] # workers["chat"]
    /\ workers'["chat"].phase = "connecting"
StartsRequest == simple.pc = "idle" /\ simple'.pc = "calling"
\* this step handles the given terminal signal of the chat turn's session
Handles(sig) ==
    /\ pending("chat")
    /\ next_signal("chat").sig = sig
    /\ workers'["chat"].delivered = workers["chat"].delivered + 1

\* C1: every streaming session emits at most one terminal signal, exactly one
\* once its run has ended, and that terminal signal is the last signal of the
\* session: no chunk, done or error follows it.
C1_SingleShot ==
    \A i \in Started :
        LET e == workers[i].emitted IN
        /\ Cardinality(Terminals(e)) <= 1
        /\ Terminals(e) \subseteq {Len(e)}
        /\ (workers[i].phase = "finished") <=> (Terminals(e) # {})

\* a session that emitted two chunks and then failed in mid-stream
C1_Witness ==
    \E i \in Started :
        /\ workers[i].emitted =
              << chunk_received(<<"a">>), chunk_received(<<"a", "b">>),
                 error_occurred(ExceptionText) >>
        /\ workers[i].phase = "finished"

\* C2: while a chat turn's session is active (started, and its terminal signal
\* not yet handled) the chat window accepts no send, and a step that starts a
\* session is taken only when none is active.
C2_OneSessionPerWindow ==
    /\ [](Active("chat") => ~can_send)
    /\ [][StartsSession => ~Active("chat")]_vars

\* a session has emitted a chunk and its end, none of it handled yet, and the
\* input is disabled
C2_Witness ==
    /\ Active("chat")
    /\ workers["chat"].phase = "finished"
    /\ workers["chat"].delivered = 0
    /\ Len(workers["chat"].emitted) = 2
    /\ ~can_send

\* C3: the chunks are emitted one per content-bearing event, in arrival order,
\* the k-th carrying the concatenation of the first k fragments, and a done
\* signal carries the concatenation of all fragments.
C3_CumulativeChunks ==
    \A i \in Started :
        LET e == workers[i].emitted
            f == workers[i].frags IN
        /\ Len(e) >= Len(f)
        /\ \A k \in 1..Len(f) : e[k] = chunk_received(Cumulative(f, k))
        /\ \A k \in DOMAIN e :
              /\ k > Len(f) => e[k].sig # "chunk"
              /\ e[k].sig = "done" => e[k].text = Cumulative(f, Len(f))

\* fragments "a", "b" then [DONE]: chunk("a"), chunk("ab"), done("ab")
C3_Witness ==
    \E i \in Started :
        /\ workers[i].frags = << <<"a">>, <<"b">> >>
        /\ workers[i].outcome = "done"
        /\ workers[i].emitted =
              << chunk_received(<<"a">>), chunk_received(<<"a", "b">>),
                 finished_signal(<<"a", "b">>) >>

\* C4: a stream that ends normally ([DONE] or end of stream) with nothing
\* accumulated ends in exactly one error("No response received") and no done;
\* with a non-empty accumulator it ends in done with the full text.
C4_EmptyIsError ==
    \A i \in Started :
        LET e == workers[i].emitted
            f == workers[i].frags IN
        workers[i].outcome \in {"done", "eof"} =>
            /\ Terminals(e) = {Len(e)}
            /\ e[Len(e)] = IF Cumulative(f, Len(f)) = <<>>
                           THEN error_occurred(NoResponse)
                           ELSE finished_signal(Cumulative(f, Len(f)))

\* [DONE] arrives after events none of which added text
C4_Witness ==
    \E i \in Started :
        /\ workers[i].outcome = "done"
        /\ workers[i].frags = << <<>> >>
        /\ workers[i].emitted = << chunk_received(<<>>), error_occurred(NoResponse) >>

\* C5: a session ended by a transport failure (on connect or in mid-stream)
\* has emitted error as its last signal and never done; and once the chat
\* window has handled everything such a chat session emitted, the last row of
\* the table is still the turn's user message: nothing of the partial text
\* was saved.
C5_FailureIsErrorOnly ==
    \A i \in Started :
        LET e == workers[i].emitted IN
        workers[i].outcome = "exception" =>
            /\ e[Len(e)].sig = "error"
            /\ \A k \in DOMAIN e : e[k].sig # "done"
            /\ (i = "chat" /\ ~pending(i)) =>
                  /\ LastRow.role = "user"
                  /\ LastRow.content = TurnMessage
                  /\ LastRow.card_id = win.card

\* the transport failed after one chunk; chunk and error have been handled
C5_Witness ==
    /\ workers["chat"].outcome = "exception"
    /\ workers["chat"].emitted =
          << chunk_received(<<"a">>), error_occurred(ExceptionText) >>
    /\ workers["chat"].delivered = 2
    /\ LastRow.role = "user"

\* C6: the step that starts a chat turn's session or request appends exactly
\* one row, the user's message, to the table, and while the session has been
\* started but has not yet made its network call (or the blocking request is
\* in progress and nothing was answered yet), that row is the last of the table.
C6_UserSavedBeforeCall ==
    /\ [][StartsSession =>
            chat_history' = Append(chat_history,
                [card_id |-> win.card, timestamp |-> clock, role |-> "user",
                 content |-> workers'["chat"].messages[2].content])]_vars
    /\ [][StartsRequest =>
            chat_history' = Append(chat_history,
                [card_id |-> simple.card, timestamp |-> clock, role |-> "user",
                 content |-> simple'.user_message])]_vars
    /\ [](workers["chat"].phase = "connecting" =>
            LastRow.role = "user" /\ LastRow.content = TurnMessage)
    /\ [](simple.pc = "calling" =>
            LastRow.role = "user" /\ LastRow.content = simple.user_message)

\* a session was started for the typed text " r", saved and sent as "r"
C6_Witness ==
    /\ workers["chat"].phase = "connecting"
    /\ TurnMessage = <<"r">>
    /\ chat_history = << [card_id |-> win.card, timestamp |-> 1, role |-> "user",
                          content |-> <<"r">>] >>

\* C7: the step that handles done(finalText) of a chat turn appends exactly one
\* row, the assistant's message with finalText, right after the turn's user
\* row, and re-enables the input.
C7_DoneSavesAssistant ==
    [][Handles("done") =>
         /\ chat_history' = Append(chat_history,
               [card_id |-> win.card, timestamp |-> clock, role |-> "assistant",
                content |-> next_signal("chat").text])
         /\ LastRow.role = "user" /\ LastRow.content = TurnMessage
         /\ win'.send_button /\ win'.message_input]_vars

\* one successful turn: the table holds the user row, then the assistant row
C7_Witness ==
    /\ Len(chat_history) = 2
    /\ chat_history[1].role = "user"
    /\ chat_history[2].role = "assistant"
    /\ chat_history[2].content = <<"a", "b">>
    /\ workers["chat"].outcome = "done"
    /\ ~pending("chat")
    /\ can_send

\* C8: the step that handles error of a chat turn leaves the table as it is
\* (the user row stays, no assistant row is added) and re-enables the input.
C8_ErrorKeepsUserRow ==
    [][Handles("error") =>
         /\ chat_history' = chat_history
         /\ LastRow.role = "user" /\ LastRow.content = TurnMessage
         /\ win'.send_button /\ win'.message_input]_vars

\* after a failed turn a second turn was sent: two user rows in a row
C8_Witness ==
    /\ Len(chat_history) = 2
    /\ chat_history[1].role = "user"
    /\ chat_history[2].role = "user"
    /\ chat_history[1].card_id = chat_history[2].card_id
    /\ addon = "collection"
    /\ workers["chat"].phase = "connecting"

\* C9: the request of a chat turn is the system message, then the card's
\* history before the turn, then the new user message.  (When the session has
\* just been started the card's history is the prior history and the turn's
\* user row.)
C9_RequestCarriesHistory ==
    workers["chat"].phase = "connecting" =>
        LET history == get_chat_history(chat_history, win.card)
            prior == SubSeq(history, 1, Len(history) - 1)
        IN  workers["chat"].messages =
               << [role |-> "system",
                   content |-> <<"ai_instructions">> \o win.card_content] >>
                 \o [k \in 1..Len(prior) |->
                       [role |-> prior[k].role, content |-> prior[k].content]]
                 \o << [role |-> "user", content |-> TurnMessage] >>

\* C10: no step of a derived operation (summary dialog, flashcard dialog,
\* generation, refinement, commit with its summary call, and the threads and
\* signal handlers they start) changes the table.
C10_HistoryUntouched == [][chat_history' = chat_history]_vars

\* notes were created although the commit's summary call failed, and the
\* conversation is still in the table
C10_Witness ==
    /\ \E k \in DOMAIN store.notes :
          store.notes[k].fields[3] = <<"Error generating conversation summary">>
    /\ Len(get_chat_history(chat_history, win.card)) = 2

\* ------------------------------------------------------------ parser claims
\* the text whose final parse the open flashcard dialog shows
ParsedText == dialog.generated_flashcards
ShowsParseOf(card_format) ==
    /\ dialog.kind = "flashcards"
    /\ dialog.format_combo = card_format
    /\ ParsedText # <<>>

IsFrontLine(l) == l # <<>> /\ Head(l) \in {"Front:", "front:"}
IsBackLine(l) == l # <<>> /\ Head(l) \in {"Back:", "back:"}
HasClozeMark(l) == \E k \in DOMAIN l : l[k] = "{{c"
StrippedLines(text) ==
    LET ls == split_lines(text) IN [k \in DOMAIN ls |-> strip(ls[k])]

\* The grammar of well-formed basic input: records of a Front: line,
\* continuation lines, a Back: line, continuation lines, each half with text,
\* separated by blank lines or nothing.  ok tells whether the lines are of that
\* form, records what they denote.
RECURSIVE BasicRecords(_, _, _, _)
BasicRecords(lines, phase, cur, acc) ==
    LET rec == [front |-> strip(cur.front), back |-> strip(cur.back)]
        valid == phase = "back" /\ rec.front # <<>> /\ rec.back # <<>>
        fail == [ok |-> FALSE, records |-> <<>>]
        none == [front |-> <<>>, back |-> <<>>]
    IN
    IF lines = <<>>
    THEN IF valid THEN [ok |-> TRUE, records |-> Append(acc, rec)]
         ELSE IF phase = "between" THEN [ok |-> TRUE, records |-> acc]
         ELSE fail
    ELSE LET l == Head(lines) IN
         IF IsFrontLine(l)
         THEN IF phase = "between"
              THEN BasicRecords(Tail(lines), "front", [none EXCEPT !.front = Tail(l)], acc)
              ELSE IF valid
              THEN BasicRecords(Tail(lines), "front", [none EXCEPT !.front = Tail(l)],
                                Append(acc, rec))
              ELSE fail
         ELSE IF IsBackLine(l)
         THEN IF phase = "front"
              THEN BasicRecords(Tail(lines), "back", [cur EXCEPT !.back = Tail(l)], acc)
              ELSE fail
         ELSE IF l = <<>>
         THEN IF phase = "between" THEN BasicRecords(Tail(lines), "between", none, acc)
              ELSE IF valid
              THEN BasicRecords(Tail(lines), "between", none, Append(acc, rec))
              ELSE fail
         ELSE IF phase = "front"
         THEN BasicRecords(Tail(lines), "front",
                           [cur EXCEPT !.front = @ \o <<"\n">> \o l], acc)
         ELSE IF phase = "back"
         THEN BasicRecords(Tail(lines), "back",
                           [cur EXCEPT !.back = @ \o <<"\n">> \o l], acc)
         ELSE fail

WellFormedBasic(text) ==
    BasicRecords(StrippedLines(text), "between", [front |-> <<>>, back |-> <<>>], <<>>)

\* C11: in the basic format, a text made of n well-formed records (Front: line,
\* continuation lines, Back: line, continuation lines; separated by blank lines
\* or followed directly by the next Front: line) parses to exactly those n
\* records, in input order, with the label-stripped front and back texts; the
\* dialog then shows n cards.
C11_BasicGrammar ==
    ShowsParseOf("basic") /\ WellFormedBasic(ParsedText).ok
        => /\ parse_flashcards(ParsedText, "basic") = WellFormedBasic(ParsedText).records
           /\ Len(dialog.card_checkboxes) = Len(WellFormedBasic(ParsedText).records)

\* two records, the second directly after the first and with a continuation
\* line, have been parsed and are shown
C11_Witness ==
    /\ ShowsParseOf("basic")
    /\ ParsedText = <<"Front:", "x", "\n", "Back:", "y", "\n",
                      "Front:", "x", "\n", "z", "\n", "Back:", "y">>
    /\ Len(dialog.card_checkboxes) = 2
    /\ WellFormedBasic(ParsedText).records =
          << [front |-> <<"x">>, back |-> <<"y">>],
             [front |-> <<"x", "\n", "z">>, back |-> <<"y">>] >>

\* C12: in the basic format parse returns, for any text, only records with both
\* keys and a non-empty front and back; a record needs a Front: line and a Back:
\* line of its own, so a text without a complete pair yields the empty sequence.
C12_BasicRecordsComplete ==
    ShowsParseOf("basic") =>
        LET flashcards == parse_flashcards(ParsedText, "basic")
            lines == StrippedLines(ParsedText)
        IN  /\ \A k \in DOMAIN flashcards :
                  /\ DOMAIN flashcards[k] = {"front", "back"}
                  /\ strip(flashcards[k].front) # <<>>
                  /\ strip(flashcards[k].back) # <<>>
            /\ Len(flashcards) <= Cardinality({k \in DOMAIN lines : IsFrontLine(lines[k])})
            /\ Len(flashcards) <= Cardinality({k \in DOMAIN lines : IsBackLine(lines[k])})
            /\ Len(dialog.card_checkboxes) = Len(flashcards)

\* "Front: Q only" has been parsed: no card is shown
C12_Witness ==
    /\ ShowsParseOf("basic")
    /\ ParsedText = <<"Front:", "x">>
    /\ dialog.card_checkboxes = <<>>
    /\ dialog.preview_layout = << Label(<<"Could not parse any valid flashcards">>) >>

\* the lines the k-th record of a cloze text is made of: from the k-th line
\* with a cloze mark up to the line before the next blank or marked line
ClozeStarts(lines) == {p \in DOMAIN lines : HasClozeMark(lines[p])}
ClozeStart(lines, k) ==
    CHOOSE p \in ClozeStarts(lines) :
        Cardinality({q \in ClozeStarts(lines) : q < p}) = k - 1
ClozeEnd(lines, p) ==
    CHOOSE q \in p..Len(lines) :
        /\ \A j \in (p + 1)..q : lines[j] # <<>> /\ ~HasClozeMark(lines[j])
        /\ q = Len(lines) \/ lines[q + 1] = <<>> \/ HasClozeMark(lines[q + 1])

\* C13: in the cloze format every line containing the cloze mark starts a
\* record, the non-empty unmarked lines after it belong to it up to the next
\* blank line, marked line or end of input, and lines outside are ignored: the
\* number of records is the number of marked lines and every record's first
\* line is marked.
C13_ClozeGrammar ==
    ShowsParseOf("cloze") =>
        LET flashcards == parse_flashcards(ParsedText, "cloze")
            lines == StrippedLines(ParsedText)
        IN  /\ Len(flashcards) = Cardinality(ClozeStarts(lines))
            /\ \A k \in DOMAIN flashcards :
                  /\ HasClozeMark(split_lines(flashcards[k].content)[1])
                  /\ flashcards[k].content =
                        strip(join_lines(SubSeq(lines, ClozeStart(lines, k),
                                                ClozeEnd(lines, ClozeStart(lines, k)))))
            /\ Len(dialog.card_checkboxes) = Len(flashcards)

\* an unmarked line, a marked line with a continuation, a blank line, an
\* ignored line and a second marked line have been parsed into two records
C13_Witness ==
    /\ ShowsParseOf("cloze")
    /\ ParsedText = <<"z", "\n", "w", "{{c", "\n", "z", "\n", "\n", "w", "{{c">>
    /\ Len(dialog.card_checkboxes) = 2
    /\ parse_flashcards(ParsedText, "cloze") =
          << [content |-> <<"w", "{{c", "\n", "z">>], [content |-> <<"w", "{{c">>] >>

\* ------------------------------------------------------------ commit claims
\* the checkboxes that are ticked, and the notes a step adds
Selected == {k \in DOMAIN dialog.card_checkboxes : dialog.card_checkboxes[k].checked}
Added == SubSeq(store'.notes, Len(store.notes) + 1, Len(store'.notes))
RunsCreationLoop ==
    /\ dialog.kind = "flashcards"
    /\ store'.notes # store.notes \/ store'.printed # store.printed

\* C14: a commit adds notes to the end of the collection's notes for selected
\* records only; every selected record whose creation did not fail is added,
\* whatever failed before it, and the count the success message reports is the
\* number of notes added: the number of selected records minus the failures.
C14_FailuresSkipped ==
    [][RunsCreationLoop =>
          /\ SubSeq(store'.notes, 1, Len(store.notes)) = store.notes
          /\ Len(Added) = Cardinality(Selected) - (store'.printed - store.printed)
          /\ Len(Added) > 0 => store'.showInfo = Len(Added) /\ dialog' = NoDialog
          /\ Len(Added) = 0 => store'.showInfo = store.showInfo /\ dialog'.kind = "flashcards"
      ]_vars

\* two records were selected, the creation of the first failed, the note of the
\* second exists and the message reported one
C14_Witness ==
    /\ dialog = NoDialog
    /\ store.printed = 1
    /\ store.showInfo = 1
    /\ Len(store.notes) = 1
    /\ store.notes[1].fields[1] = <<"z">>

\* the current values of the text fields of the record shown at position k
CurrentValues(k) ==
    IF k <= Len(dialog.preview_layout) /\ dialog.preview_layout[k].w = "card"
    THEN dialog.preview_layout[k].text_edits
    ELSE <<>>
\* the note carries these values in its leading fields
WrittenAs(note, values) ==
    /\ values # <<>>
    /\ \A n \in DOMAIN values : note.fields[n] = values[n]

\* C15: every note a commit adds carries, in its leading fields, the values the
\* text fields of a selected record hold at that moment (after any edit or
\* refinement), whatever was parsed from the generated text.
C15_EditsRoundTrip ==
    [][dialog.kind = "flashcards" =>
          \A j \in DOMAIN Added :
             \E k \in Selected : WrittenAs(Added[j], CurrentValues(k))
      ]_vars

\* the positions of the note types of a name
NamedTypes(note_types, name) == {k \in DOMAIN note_types : note_types[k].name = name}

\* C16: the collection never holds two note types named "AI Chat Basic" or two
\* named "AI Chat Cloze"; a step adds a note type only under a name that was
\* absent, with the three fields of its format, and leaves the name, kind and
\* field list of every note type that exists unchanged (its template may
\* change).
C16_NoteTypeIdempotent ==
    [][/\ \A name \in {"AI Chat Basic", "AI Chat Cloze"} :
             Cardinality(NamedTypes(store'.note_types, name)) <= 1
       /\ Len(store'.note_types) >= Len(store.note_types)
       /\ \A k \in DOMAIN store.note_types :
             /\ store'.note_types[k].name = store.note_types[k].name
             /\ store'.note_types[k].type = store.note_types[k].type
             /\ store'.note_types[k].flds = store.note_types[k].flds
       /\ \A k \in (Len(store.note_types) + 1)..Len(store'.note_types) :
             /\ NamedTypes(store.note_types, store'.note_types[k].name) = {}
             /\ \/ /\ store'.note_types[k].name = "AI Chat Basic"
                   /\ store'.note_types[k].flds =
                         <<"Front", "Back", "AI Conversation Summary">>
                \/ /\ store'.note_types[k].name = "AI Chat Cloze"
                   /\ store'.note_types[k].flds =
                         <<"Text", "Extra", "AI Conversation Summary">>
      ]_vars

\* commits in both formats have run on a collection that held the basic note
\* type with a fourth field: it kept its fields and got the new template, and
\* the cloze note type was added once
C16_Witness ==
    /\ Len(store.note_types) = 2
    /\ store.note_types[1].name = "AI Chat Basic"
    /\ store.note_types[1].flds = <<"Front", "Back", "AI Conversation Summary", "Notes">>
    /\ store.note_types[1].tmpls = << "basic answer with summary button" >>
    /\ store.note_types[2].name = "AI Chat Cloze"
    /\ Len(store.notes) = 1

\* ------------------------------------------------------------ generation claims
\* the open flashcard dialog handles the done signal of generation thread i
HandlesDone(i) ==
    /\ workers[i].kind = "flashcards"
    /\ workers[i].owner = "dialog"
    /\ dialog.kind = "flashcards"
    /\ pending(i)
    /\ next_signal(i).sig = "done"
    /\ workers'[i].delivered = workers[i].delivered + 1

\* the text fields a record is shown with
ShownAs(flashcard) ==
    IF "content" \in DOMAIN flashcard
    THEN << QTextEdit(flashcard.content) >>
    ELSE << QTextEdit(flashcard.front), QTextEdit(flashcard.back) >>

\* C17: when the dialog handles done with final text T, it keeps T and shows
\* exactly the records of parse(T) in the selected format, in order, each with
\* a fresh unticked checkbox, whatever the streaming preview showed or the user
\* ticked before; if parse(T) is empty it shows the could-not-parse label and
\* no record.
C17_DoneShowsFinalParse ==
    [][\A i \in WorkerSlots :
          HandlesDone(i) =>
             LET T == next_signal(i).text
                 flashcards == parse_flashcards(T, dialog.format_combo)
             IN  /\ dialog'.generated_flashcards = T
                 /\ Len(dialog'.card_checkboxes) = Len(flashcards)
                 /\ \A k \in DOMAIN flashcards :
                       /\ dialog'.card_checkboxes[k] = [checked |-> FALSE, deleted |-> FALSE]
                       /\ dialog'.preview_layout[k].w = "card"
                       /\ dialog'.preview_layout[k].checkbox = k
                       /\ dialog'.preview_layout[k].text_edits = ShownAs(flashcards[k])
                 /\ IF flashcards = <<>>
                    THEN dialog'.preview_layout =
                            << Label(<<"Could not parse any valid flashcards">>) >>
                    ELSE /\ Len(dialog'.preview_layout) = Len(flashcards) + 1
                         /\ dialog'.preview_layout[Len(flashcards) + 1] = Stretch
      ]_vars

\* the streaming preview had replaced a placeholder by a card, and the final
\* text has been handled: two unticked records are shown
C17_Witness ==
    /\ dialog.kind = "flashcards"
    /\ dialog.generated_flashcards # <<>>
    /\ \E p \in DOMAIN dialog.card_placeholders : dialog.card_placeholders[p].w = "card"
    /\ Len(dialog.card_checkboxes) = 2
    /\ \A k \in DOMAIN dialog.card_checkboxes : ~dialog.card_checkboxes[k].checked
    /\ ~pending("flashcards")
    /\ workers["flashcards"].outcome = "done"

\* ------------------------------------------------------------ liveness
AwaitingResponse == addon = "collection" /\ ~win.send_button /\ ~win.message_input
Idle == win.send_button /\ win.message_input /\ win.current_ai_bubble = 0

\* C18: whenever a chat turn has been sent and the input is disabled, the
\* window eventually is idle again with the send button and the input line
\* enabled, whether the session ends in done or in error.
C18_TurnReturnsToIdle == AwaitingResponse ~> Idle

\* a turn whose stream broke after a fragment has been handled to its end and
\* the window is idle
C18_Witness ==
    /\ addon = "collection"
    /\ workers["chat"].outcome = "exception"
    /\ workers["chat"].frags # <<>>
    /\ ~pending("chat")
    /\ Idle

\* ------------------------------------------------------------ stream lines
\* C19: a step in which a session passes over a malformed data line changes
\* nothing else of the session: not the accumulated text, not the signals
\* emitted, not its position in the loop, which goes on with the next line; so
\* the run ends as it would have without that line.
C19_MalformedSkipped ==
    [][\A i \in WorkerSlots :
          lines_read' # lines_read /\ workers'[i].skipped > workers[i].skipped =>
             /\ workers'[i] = [workers[i] EXCEPT !.skipped = @ + 1]
             /\ workers'[i].phase = "streaming"
      ]_vars

\* a chat session read a malformed line and a fragment and ended with [DONE]:
\* its only terminal signal is done with the fragment
C19_Witness ==
    /\ workers["chat"].skipped = 1
    /\ workers["chat"].outcome = "done"
    /\ workers["chat"].frags = << <<"a">> >>
    /\ workers["chat"].emitted =
          << chunk_received(<<"a">>), finished_signal(<<"a">>) >>

\* ------------------------------------------------------------ simple add-on
\* C20: in ai_chat_simple.py the step that ends a turn whose API call failed
\* leaves the table as the user row had left it: no assistant row is saved.
C20_FailedTurnSavesNothing ==
    [][simple.pc = "calling" /\ simple'.pc = "idle" /\ simple'.raised
          => chat_history' = chat_history]_vars

\* ------------------------------------------------------------ refinement claims
\* the record shown at position k, read from its text fields
CurrentRecord(k) ==
    IF Len(CurrentValues(k)) = 1
    THEN [content |-> CurrentValues(k)[1]]
    ELSE [front |-> CurrentValues(k)[1], back |-> CurrentValues(k)[2]]

\* the refinement dialog is accepted and a refinement thread is started
StartsRefinement ==
    /\ dialog.kind = "flashcards"
    /\ dialog.refining # 0
    /\ workers'["refinement"] # workers["refinement"]
    /\ workers'["refinement"].phase = "connecting"

\* C21: the request of a refinement embeds the values the record's text fields
\* hold when the refinement is started (after edits and earlier refinements),
\* not the text parsed from the generation output.
C21_RefinementUsesCurrent ==
    [][StartsRefinement =>
          /\ CurrentValues(dialog.refining) # <<>>
          /\ \E prompt_input \in RefinementPrompts :
                workers'["refinement"].messages =
                   CardRefinementWorker_messages(CurrentRecord(dialog.refining),
                      strip(prompt_input), dialog.format_combo)
      ]_vars

\* the open flashcard dialog handles refinement_complete of thread i
HandlesRefined(i) ==
    /\ workers[i].kind = "refinement"
    /\ workers[i].owner = "dialog"
    /\ dialog.kind = "flashcards"
    /\ pending(i)
    /\ next_signal(i).sig = "done"
    /\ workers'[i].delivered = workers[i].delivered + 1

\* the values of a parsed record, in the order of its text fields
FieldsOf(flashcard) ==
    IF "content" \in DOMAIN flashcard
    THEN << flashcard.content >>
    ELSE << flashcard.front, flashcard.back >>

\* C22: when a refinement completes with a response, the text fields of the
\* refined record become the fields of the first record the generation parser
\* recognises in the response; a response in which it recognises no record
\* leaves the dialog as it is.
C22_RefinementParsesLikeGeneration ==
    [][\A i \in WorkerSlots :
          HandlesRefined(i) /\ CurrentValues(workers[i].card_index) # <<>> =>
             LET flashcards ==
                    parse_flashcards(next_signal(i).text, dialog.format_combo)
             IN  IF flashcards = <<>>
                 THEN dialog' = dialog
                 ELSE dialog'.preview_layout[workers[i].card_index].text_edits
                         = FieldsOf(flashcards[1])
      ]_vars

\* the chat window whose slots are connected to the signals of worker i
WindowOf(i) == IF workers[i].owner = "window" THEN win ELSE old_win
\* this step runs the slot connected to the oldest undelivered signal of the
\* chat session i
HandlesChat(i) ==
    /\ workers[i].kind = "chat"
    /\ pending(i)
    /\ workers'[i].delivered = workers[i].delivered + 1

\* C23: a callback that a chat session delivers after its window was closed
\* is discarded: it changes neither what the window displays nor the
\* conversation history.
C23_ClosedWindowDiscards ==
    [][\A i \in WorkerSlots :
          (HandlesChat(i) /\ ~WindowOf(i).visible) =>
             /\ chat_history' = chat_history
             /\ (IF workers[i].owner = "window" THEN win' ELSE old_win').bubbles
                   = WindowOf(i).bubbles
      ]_vars

\* the chat windows that are shown
OpenWindows == {w \in {win, old_win} : w.visible}
\* at most one chat window is shown, and it is bound to the manager's card
OneWindowOnCurrentCard ==
    /\ ~(win.visible /\ old_win.visible)
    /\ \A w \in OpenWindows : w.card = chat_manager.current_card

\* C30: at most one chat window is open, and an open window is bound to the
\* card the host reported last: a report of a different card closes the open
\* window, an open request closes the existing window before it shows one for
\* the current card, and nothing is opened while no card is current.
C30_OneWindowForCurrentCard ==
    /\ []OneWindowOnCurrentCard
    /\ [][/\ (win.visible /\ chat_manager'.current_card # win.card) => ~win'.visible
          /\ chat_manager.current_card = "none" => ~win'.visible
         ]_vars

\* a window is open on the current card after the window of another card was
\* closed and replaced
C30_Witness ==
    /\ win.visible
    /\ chat_manager.current_window
    /\ old_win.card \in Cards \ {win.card}
    /\ ~old_win.visible

\* the generation sessions whose callbacks still reach the open dialog
DeliveringGenerations ==
    {i \in WorkerSlots : /\ workers[i].kind = "flashcards"
                         /\ workers[i].owner = "dialog"
                         /\ in_flight(workers[i])}

\* C24: at most one generation session runs for or delivers to a generation
\* workflow: generating again before the running session has ended does not
\* leave two sessions delivering to the same dialog.
C24_OneGenerationSession ==
    dialog.kind = "flashcards" => Cardinality(DeliveringGenerations) <= 1

\* the rows of card c in the order in which they were inserted
InsertedFor(c) == where_card(chat_history, c, TRUE)

\* C25: the history returned for a card is exactly the rows appended for it
\* since its last clear, in insertion order.
C25_InsertionOrder ==
    \A c \in Cards :
        LET history == get_chat_history(chat_history, c) IN
        /\ Len(history) = Len(InsertedFor(c))
        /\ \A k \in 1..Len(history) :
              /\ history[k].role = InsertedFor(c)[k].role
              /\ history[k].content = InsertedFor(c)[k].content
              /\ history[k].timestamp = InsertedFor(c)[k].timestamp

\* C27: the commit button of the generation dialog is enabled only once no
\* generation session is streaming to the dialog any more, and only while at
\* least one shown record is ticked.
C27_CreateOnlyInPreview ==
    (dialog.kind = "flashcards" /\ dialog.create_btn) =>
       /\ DeliveringGenerations = {}
       /\ \E k \in DOMAIN dialog.card_checkboxes :
             dialog.card_checkboxes[k].checked /\ ~dialog.card_checkboxes[k].deleted

\* the card_format the generation shown in the dialog was started with, as
\* its worker was given it
GenerationFormat == workers["flashcards"].messages[2].content[3]

\* C26: the notes a commit adds are written to the note type of the format
\* the generation was started with, whatever the format selector shows at
\* the time of the commit.
C26_FormatFixedAtGeneration ==
    [][(dialog.kind = "flashcards" /\ workers["flashcards"].kind = "flashcards") =>
          \A j \in DOMAIN Added : Added[j].note_type = note_type_name(GenerationFormat)
      ]_vars

\* the history of the simple window's card as it was persisted before the
\* turn that is being answered saved its user message
HistoryBeforeTurn ==
    LET history == get_chat_history(chat_history, simple.card)
    IN  SubSeq(history, 1, Len(history) - 1)

\* C28: the request of a turn of the blocking add-on is the system message,
\* the at most 6 most recent messages persisted before the turn, and the
\* turn's user message once, at the end.
C28_SimpleRequestShape ==
    (addon = "simple" /\ simple.pc = "calling") =>
       LET recent_history == last6(HistoryBeforeTurn) IN
       simple.messages =
          << [role |-> "system", content |-> <<"study assistant">> \o simple.card_content] >>
            \o [i \in 1..Len(recent_history) |->
                  [role |-> recent_history[i].role, content |-> recent_history[i].content]]
            \o << [role |-> "user", content |-> simple.user_message] >>

\* C29: every note a commit adds carries, as its summary, the one value the
\* commit's summary request left: the stripped reply, or the text "Error
\* generating conversation summary" when the request failed; a failed request
\* does not abort the commit: the notes of the selected records that the
\* collection takes are added all the same.
C29_SummaryFailureKeepsCommit ==
    [][\A ok \in BOOLEAN, reply \in Replies, add_fails \in SUBSET Checkboxes :
          create_flashcards(ok, reply, add_fails) =>
             /\ \A j \in DOMAIN Added :
                   Added[j].fields[3] =
                      IF ok THEN strip(reply)
                      ELSE <<"Error generating conversation summary">>
             /\ RunsCreationLoop =>
                   Len(Added) = Cardinality(Selected) - (store'.printed - store.printed)
      ]_vars

\* the summary request failed and both selected records became notes that
\* carry the placeholder
C29_Witness ==
    /\ dialog = NoDialog
    /\ Len(store.notes) = 2
    /\ \A j \in DOMAIN store.notes :
          store.notes[j].fields[3] = <<"Error generating conversation summary">>

====
